---- MODULE Spec2Model ----
(***************************************************************************)
(* State-machine model of the authoritative game server                    *)
(* (src/src/bin/server.rs): the fixed-update systems that ingest client    *)
(* messages, resolve combat, run the bot, drive the round state machine    *)
(* and manage scaffolds.                                                   *)
(*                                                                         *)
(* Conventions.                                                            *)
(*  - Every duration is an integer number of milliseconds (the code uses   *)
(*    f32 seconds): RELOAD_TIME 1.6 s is 1600, FIRE_COOLDOWN 1/7.5 s is    *)
(*    133 (rounded down).                                                  *)
(*  - A system of the FixedUpdate schedule is one atomic action taking the *)
(*    timestep dt; within a tick every system of the specification runs    *)
(*    exactly once, in any order (main() registers them without ordering), *)
(*    which the set `ran` records.  Update-schedule systems and the        *)
(*    network run between ticks.                                           *)
(*  - HashMaps are functions with a growing or shrinking DOMAIN.           *)
(*  - The physics collaborator and the ray geometry are inputs of the      *)
(*    combat actions: which actor a ray test selects, and what cast_ray    *)
(*    returns ("none": nothing within the distance, "target": the target's *)
(*    own collider first, "blocker": some other collider first).           *)
(*  - `events` holds the events the latest action broadcast, `shots` the   *)
(*    shots it resolved together with the ray inputs they were given.      *)
(***************************************************************************)
EXTENDS Integers, Sequences, FiniteSets, TLC

\* ---------------------------------------------------------------- bounds
\* Timestep of the model in ms (the program runs at 60 Hz; the systems take
\* dt as a parameter, and the model uses a coarser step).
DT == 2000
\* Ticks explored from an initial state (the tick counter stops there).
MaxTicks == 3
\* Largest input sequence number a client sends.
MaxSeq == 2
\* Client messages sent in one behaviour.
MaxMsgs == 1
\* Round-update steps already taken in a late initial state.
LateTicks == 148
\* Scaffold placement requests sent in one behaviour.
MaxPlace == 4
\* Timestep in ms of the specification that samples the position history.
HistDT == 500
\* Timestep in ms of the specification that empties and reloads a magazine.
MagDT == 400
\* Input frames a client sends in that specification.
MaxFrames == 14
\* Timestep in ms of the specification that runs the bot's state machine.
BotDT == 200
\* Timestep in ms of the specification that runs the protection timers.
ProtDT == 500
\* Connection events queued before accept_clients runs (SpecConn).
MaxEvents == 2
\* Collider entities alive for one id before the model stops reconnecting it.
MaxBodies == 2
\* Fire requests clients send in SpecFire.
MaxFires == 2
\* Timestep in ms and jump frames sent in the specification that follows jumps.
JumpDT == 100
MaxJumps == 3
JumpTicks == 6
ResetAfter == 3
AimTicks == 2
LivePlace == 2
LenUnit == 20

\* ------------------------------------------------------- program constants
MAG_SIZE == 12
RELOAD_TIME == 1600
FIRE_COOLDOWN == 133
BOT_FIRE_COOLDOWN == 180
BOT_DMG == 1
SHOT_DMG == 35
FULL_HP == 100
PROTECT_SEC == 2000
RESPAWN_DELAY == 2000
BOT_REACT_SEC == 250
BOT_LOS_GRACE_SEC == 600
BOT_LOST_TO_WANDER_SEC == 2000
WIN_KILLS == 10
ROUND_TIME_SEC == 300000
ROUND_END_DELAY_SEC == 5000
SCAFFOLD_LIFETIME == 10000
SCAFFOLD_PER_PLAYER_LIMIT == 3
LAG_COMP_SEC == 100
JUMP_BUFFER_SEC == 120
COYOTE_SEC == 100
JUMP_COOLDOWN_SEC == 150
\* Jump impulse and gravity, in mm/s and mm/s^2.
JUMP_VY == 5200
GRAVITY == 9810
\* Lengths of the aim model, in LenUnit-ths of a metre: 0.3, 0.35 and 100.
HIT_RADIUS == 6
AIM_SLACK == 7
AIM_RANGE == 2000
HIST_MAX_SEC == 1500
U16 == 65536
U8 == 255
INFINITY == 1000000
DefaultSpawn == 5
SPAWN_JITTER_RADIUS == 6
DESIRED_BOTS == 1

Humans == {"h1", "h2"}
BotIds == {"b1"}
Actors == Humans \cup BotIds
None == "none"

\* Positions are points of a line; the map registers two spawn points.
Positions == {0, 5, 9}
MapSpawns == <<0, 9>>

VARIABLES
    clients,      \* RenetServer::clients_id(): ids connected at the transport
    inbox,        \* per client, the messages queued on a channel for receive_message
    players,      \* Players.states: id -> [hp, alive, pos]
    bots,         \* Bots.states: id -> [hp, alive]
    weapons,      \* Weapons: id -> [ammo, cooldown, reload]
    protect,      \* ProtectTimers: id -> ms
    respawns,     \* RespawnTimers: id -> ms
    botRespawns,  \* BotRespawnTimers: id -> ms
    scores,       \* Scores: id -> [kills, deaths]
    round,        \* RoundState: [phase, time_left, end_timer]
    last,         \* LastInputs: id -> [seq, fire]
    lastFire,     \* LastFireSeq: id -> seq
    fires,        \* PendingFires: sequence of [id, ok]
    spawns,       \* SpawnPoints: sequence of positions
    botFsm,       \* BotFSM: id -> [st, timer]
    botTarget,    \* BotTarget: id -> target id or None
    botLos,       \* BotLosMissing: id -> ms
    botFocus,     \* BotFocus: id -> [tgt, t]
    pending,      \* PendingScaffold: sequence of owners
    scaffolds,    \* Scaffolds: [by_id: sid -> [owner, life], per_owner: owner -> Seq(sid)]
    nextSid,      \* NextScaffoldId
    events,       \* events broadcast by the latest action
    shots,        \* shots resolved by the latest action, with their ray inputs
    ran,          \* FixedUpdate systems that already ran in the current tick
    tick,         \* ticks completed
    sent,         \* client messages sent so far
    srvEvents,    \* RenetServer::get_event(): queued connection events
    posHist,      \* PosHistory: id -> sequence of samples [t, p], oldest first
    simTime,      \* SimTime: simulation clock in ms
    rewound,      \* the latest rewind_pos call: [h, t, r, asked]
    ents,         \* ServerEntities: the ids with a recorded collider entity
    bodies,       \* id -> number of collider entities spawned for it and alive
    jumpSt,       \* movement state of the players whose jumps are followed:
                  \* id -> [grounded, vy, used, buf, coy, cd, air, late]
    hist          \* history kept for the properties (see each use)

combatVars == <<players, bots, weapons, protect, respawns, botRespawns, scores,
                lastFire>>
botVars == <<botFsm, botTarget, botLos, botFocus>>
scaffoldVars == <<pending, scaffolds, nextSid>>
lagVars == <<posHist, simTime, rewound>>
entVars == <<ents, bodies>>
vars == <<clients, inbox, players, bots, weapons, protect, respawns, botRespawns,
          scores, round, last, lastFire, fires, spawns, botFsm, botTarget, botLos,
          botFocus, pending, scaffolds, nextSid, events, shots, ran, tick, sent,
          srvEvents, posHist, simTime, rewound, ents, bodies, jumpSt, hist>>

\* ---------------------------------------------------------------- helpers
Max(a, b) == IF a >= b THEN a ELSE b
Min(a, b) == IF a <= b THEN a ELSE b
Abs(a) == IF a >= 0 THEN a ELSE 0 - a
Range(s) == {s[i] : i \in 1..Len(s)}

\* HashMap::insert / or_insert / remove / get-with-default.
Put(f, k, v) == [x \in DOMAIN f \cup {k} |-> IF x = k THEN v ELSE f[x]]
Del(f, k) == [x \in DOMAIN f \ {k} |-> f[x]]
Get(f, k, d) == IF k \in DOMAIN f THEN f[k] ELSE d
Empty == [x \in {} |-> 0]

\* A fixed enumeration of a set of ids, and all its orderings (HashMap
\* iteration order is arbitrary).
Perms(S) == {p \in [1..Cardinality(S) -> S] : \A x \in S : \E i \in DOMAIN p : p[i] = x}

\* A u16 subtraction that wraps around instead of saturating.
WrapSub(a, b) == (a - b + U16) % U16

\* u16::saturating_sub, as the code applies it to hp and ammo.
SatSub(a, b) == IF a >= b THEN a - b ELSE 0

\* A timer that counts down by dt and is clamped at zero:
\* `if t > 0.0 { t = (t - dt).max(0.0) }`.
TickDown(t, dt) == IF t > 0 THEN Max(t - dt, 0) ELSE t

FullWeapon == [ammo |-> MAG_SIZE, cooldown |-> 0, reload |-> 0]

\* A rewound position as an exact fraction num / den (den > 0); the None of
\* Option<Vec3> has den = 0.
Frac(num, den) == [num |-> num, den |-> den]
FracEq(a, b) == a.num * b.den = b.num * a.den
NoPos == Frac(0, 0)
\* No rewind has been asked for yet.
NoRewind == [h |-> <<>>, t |-> 0, r |-> NoPos, asked |-> FALSE]

\* An event record; every kind uses the same fields (unused ones are None/0).
Ev(t, id, by, n, flag) == [t |-> t, id |-> id, by |-> by, n |-> n, flag |-> flag]
EvAmmo(id, ammo, reloading) == Ev("Ammo", id, None, ammo, reloading)
EvFire(id) == Ev("Fire", id, None, 0, FALSE)
EvHit(target, hp, by) == Ev("Hit", target, by, hp, FALSE)
EvDeath(target, by) == Ev("Death", target, by, 0, FALSE)
EvSpawn(id) == Ev("Spawn", id, None, 0, FALSE)
EvScore == Ev("Score", None, None, 0, FALSE)
EvRoundEnd(winner) == Ev("RoundEnd", winner, None, 0, FALSE)
EvRoundStart == Ev("RoundStart", None, None, 0, FALSE)

\* ------------------------------------------------------------ spawn points
\* Smallest distance from point q to an alive player (f32::INFINITY if none).
MinDist(p, q) ==
    LET ds == {Abs(p[x].pos - q) : x \in {y \in DOMAIN p : p[y].alive}}
    IN IF ds = {} THEN INFINITY ELSE CHOOSE d \in ds : \A e \in ds : d <= e

\* choose_spawn_point: the first registered point whose distance to the
\* nearest alive player is largest; the default point if none is registered.
choose_spawn_point(sp, p) ==
    IF sp = <<>> THEN DefaultSpawn
    ELSE LET i == CHOOSE k \in 1..Len(sp) :
                    /\ \A j \in 1..Len(sp) : MinDist(p, sp[j]) <= MinDist(p, sp[k])
                    /\ \A j \in 1..(k - 1) : MinDist(p, sp[j]) < MinDist(p, sp[k])
         IN sp[i]

\* Points within the spawn jitter of a spawn point.
Jitter(q) == {x \in Positions : Abs(x - q) <= SPAWN_JITTER_RADIUS}

\* ------------------------------------------------------------- environment
InputMsgs == [k : {"Input"}, seq : 1..MaxSeq, fire : BOOLEAN, jump : {FALSE}]
JumpMsgs == [k : {"Input"}, seq : {1}, fire : {FALSE}, jump : BOOLEAN]
FireMsgs == [k : {"Fire"}, seq : {0}, fire : BOOLEAN]
PlaceMsgs == [k : {"Place"}, seq : {0}, fire : {FALSE}]

\* Actions that are no FixedUpdate system leave the tick bookkeeping alone
\* and broadcast nothing.
Quiet == /\ events' = <<>>
         /\ shots' = <<>>
         /\ UNCHANGED <<ran, tick>>

\* A client connects at the transport; the server sees a ClientConnected event.
Connect(id) ==
    /\ ran = {}
    /\ id \notin clients
    /\ clients' = clients \cup {id}
    /\ srvEvents' = Append(srvEvents, [k |-> "conn", id |-> id])
    /\ Quiet
    /\ UNCHANGED lagVars
    /\ UNCHANGED entVars
    /\ UNCHANGED jumpSt
    /\ UNCHANGED <<inbox, combatVars, round, last, fires, spawns, botVars,
                   scaffoldVars, sent, hist>>

\* A client's message reaches the server's receive queue.
ClientSend(id, m) ==
    /\ ran = {}
    /\ id \in clients
    /\ sent' = sent + 1
    /\ inbox' = [inbox EXCEPT ![id] = Append(@, m)]
    /\ Quiet
    /\ UNCHANGED lagVars
    /\ UNCHANGED entVars
    /\ UNCHANGED jumpSt
    /\ UNCHANGED <<clients, srvEvents, combatVars, round, last, fires, spawns,
                   botVars, scaffoldVars, hist>>

\* ------------------------------------------------------------ movement state
\* A fresh PlayerState stands on the ground at rest; the jump maps hold
\* nothing for it (read as zero).  air and late are history: the air jumps
\* since the last ground contact, and the jump impulses after an air jump.
JumpDefault ==
    [grounded |-> TRUE, vy |-> 0, used |-> 0, buf |-> 0, coy |-> 0, cd |-> 0,
     air |-> 0, late |-> 0]

\* PlayerState inserted or respawned: grounded, vy = 0.
Grounded(js, id) ==
    IF id \notin DOMAIN js THEN js
    ELSE [js EXCEPT ![id].grounded = TRUE, ![id].vy = 0,
                    ![id].air = 0, ![id].late = 0]

RECURSIVE GroundedAll(_, _)
GroundedAll(js, ids) ==
    IF ids = {} THEN js
    ELSE LET id == CHOOSE x \in ids : TRUE
         IN GroundedAll(Grounded(js, id), ids \ {id})

\* The round reset of a player: grounded, vy = 0 and the air-jump count zeroed.
RECURSIVE JumpResetAll(_, _)
JumpResetAll(js, ids) ==
    IF ids = {} THEN js
    ELSE LET id == CHOOSE x \in ids : TRUE
             js1 == Grounded(js, id)
         IN JumpResetAll(IF id \in DOMAIN js1 THEN [js1 EXCEPT ![id].used = 0] ELSE js1,
                         ids \ {id})

\* srv_kcc_post for one player: grounded as the physics output g says (none:
\* no output yet); landing (grounded with vy <= 0) zeroes vy and the air-jump
\* count.
PostOne(j, g) ==
    IF g = "none" THEN j
    ELSE LET on == (g = "ground")
             j1 == [j EXCEPT !.grounded = on,
                             !.air = IF on THEN 0 ELSE @,
                             !.late = IF on THEN 0 ELSE @]
         IN IF on /\ j.vy <= 0 THEN [j1 EXCEPT !.vy = 0, !.used = 0] ELSE j1

\* A move that grants an air jump whatever the air-jump count.
MoveOneKeepsCount(j, dt) ==
    LET buf1 == TickDown(j.buf, dt)
        coy1 == IF j.grounded THEN COYOTE_SEC ELSE TickDown(j.coy, dt)
        cd1 == TickDown(j.cd, dt)
        fall == (GRAVITY * dt) \div 1000
        vy1 == Max(j.vy - fall, 0 - fall)
        try == buf1 > 0 /\ cd1 <= 0
        ground == try /\ (j.grounded \/ coy1 > 0)
        air == try /\ ~ground
        jumped == ground \/ air
    IN [grounded |-> j.grounded,
        vy |-> IF jumped THEN JUMP_VY ELSE vy1,
        used |-> IF air THEN Min(j.used + 1, U8) ELSE j.used,
        buf |-> IF jumped THEN 0 ELSE buf1,
        coy |-> coy1,
        cd |-> IF jumped THEN JUMP_COOLDOWN_SEC ELSE cd1,
        air |-> IF air THEN Min(j.air + 1, 2) ELSE j.air,
        late |-> IF jumped /\ j.air > 0 THEN 1 ELSE j.late]

\* srv_kcc_move for one player: the timers run, gravity acts (falling speeds
\* beyond one tick of gravity are not told apart), and a buffered jump off
\* cooldown fires from the ground or within the coyote time, else as the one
\* air jump.
MoveOne(j, dt) ==
    LET buf1 == TickDown(j.buf, dt)
        coy1 == IF j.grounded THEN COYOTE_SEC ELSE TickDown(j.coy, dt)
        cd1 == TickDown(j.cd, dt)
        fall == (GRAVITY * dt) \div 1000
        vy1 == Max(j.vy - fall, 0 - fall)
        try == buf1 > 0 /\ cd1 <= 0
        ground == try /\ (j.grounded \/ coy1 > 0)
        air == try /\ ~ground /\ j.used < 1
        jumped == ground \/ air
    IN [grounded |-> j.grounded,
        vy |-> IF jumped THEN JUMP_VY ELSE vy1,
        used |-> IF air THEN Min(j.used + 1, U8) ELSE j.used,
        buf |-> IF jumped THEN 0 ELSE buf1,
        coy |-> coy1,
        cd |-> IF jumped THEN JUMP_COOLDOWN_SEC ELSE cd1,
        air |-> IF air THEN Min(j.air + 1, 2) ELSE j.air,
        late |-> IF jumped /\ j.air > 0 THEN 1 ELSE j.late]

\* An alive player with a latest frame and a collider entity is moved.
srv_kcc_move(dt) ==
    /\ "kccmove" \notin ran
    /\ ran' = ran \cup {"kccmove"}
    /\ jumpSt' = [id \in DOMAIN jumpSt |->
                    IF /\ id \in DOMAIN players /\ players[id].alive
                       /\ id \in DOMAIN last /\ id \in ents
                    THEN MoveOne(jumpSt[id], dt) ELSE jumpSt[id]]
    /\ events' = <<>>
    /\ shots' = <<>>
    /\ UNCHANGED lagVars
    /\ UNCHANGED entVars
    /\ UNCHANGED <<clients, inbox, srvEvents, combatVars, round, last, fires,
                   spawns, botVars, scaffoldVars, tick, sent, hist>>

\* ------------------------------------------------------------ recv_inputs
\* One message of one client: an input frame overwrites the latest frame, a
\* fire or placement request is queued.  acc = [last, fires, pending, seen].
RecvMsg(acc, id, m) ==
    IF m.k = "Input"
    THEN [acc EXCEPT !.last = Put(@, id, [seq |-> m.seq, fire |-> m.fire]),
                     !.js = IF m.jump /\ id \in DOMAIN @
                            THEN [@ EXCEPT ![id].buf = JUMP_BUFFER_SEC] ELSE @,
                     !.seen = IF id \in DOMAIN acc.last /\ acc.last[id].seq = m.seq
                              THEN @ ELSE @ \cup {id}]
    ELSE IF m.k = "Fire"
    THEN [acc EXCEPT !.fires = Append(@, [id |-> id, ok |-> m.fire])]
    ELSE [acc EXCEPT !.pending = Append(@, id)]

RECURSIVE RecvQueue(_, _, _)
RecvQueue(acc, id, q) ==
    IF q = <<>> THEN acc ELSE RecvQueue(RecvMsg(acc, id, Head(q)), id, Tail(q))

RECURSIVE RecvClients(_, _)
RecvClients(acc, order) ==
    IF order = <<>> THEN acc
    ELSE RecvClients(RecvQueue(acc, Head(order), inbox[Head(order)]), Tail(order))

recv_inputs ==
    /\ "recv" \notin ran
    /\ \E order \in Perms(clients) :
         LET acc == RecvClients([last |-> last, fires |-> fires,
                                 pending |-> pending, js |-> jumpSt,
                                 seen |-> {}], order)
         IN /\ last' = acc.last
            /\ jumpSt' = acc.js
            /\ fires' = acc.fires
            /\ pending' = acc.pending
            \* history: an actor whose stored sequence number changed starts
            \* a new count of shots taken for its frame
            /\ hist' = [hist EXCEPT !.inShots =
                          [x \in DOMAIN @ \cup acc.seen |->
                             IF x \in acc.seen THEN 0 ELSE @[x]]]
    /\ inbox' = [id \in DOMAIN inbox |-> IF id \in clients THEN <<>> ELSE inbox[id]]
    /\ ran' = ran \cup {"recv"}
    /\ events' = <<>>
    /\ shots' = <<>>
    /\ UNCHANGED lagVars
    /\ UNCHANGED entVars
    /\ UNCHANGED <<clients, srvEvents, combatVars, round, spawns, botVars,
                   scaffolds, nextSid, tick, sent>>

\* ---------------------------------------------------------- accept_clients
\* commands.spawn of a collider entity for id, recorded in the entity map:
\* an entity recorded before stays alive and is no longer referenced.
\* b = [ents, bodies].
SpawnBody(b, id) ==
    [ents |-> b.ents \cup {id},
     bodies |-> Put(b.bodies, id, Get(b.bodies, id, 0) + 1)]

\* `if let Some(e) = ents.0.remove(&id) { despawn_recursive }`.
DespawnBody(b, id) ==
    IF id \notin b.ents THEN b
    ELSE [ents |-> b.ents \ {id},
          bodies |-> IF b.bodies[id] = 1 THEN Del(b.bodies, id)
                     ELSE Put(b.bodies, id, b.bodies[id] - 1)]

\* acc = [players, scores, weapons, protect, b, ev]
AcceptEvent(acc, e, pos) ==
    IF e.k = "conn"
    THEN [acc EXCEPT
            !.players = Put(@, e.id, [hp |-> FULL_HP, alive |-> TRUE, pos |-> pos]),
            !.js = Grounded(@, e.id),
            !.b = SpawnBody(@, e.id),
            !.scores = IF e.id \in DOMAIN @ THEN @
                       ELSE Put(@, e.id, [kills |-> 0, deaths |-> 0]),
            !.weapons = Put(@, e.id, FullWeapon),
            !.protect = Put(@, e.id, PROTECT_SEC),
            !.ev = @ \o <<EvSpawn(e.id), EvAmmo(e.id, MAG_SIZE, FALSE), EvRoundStart>>]
    ELSE [acc EXCEPT
            !.players = Del(@, e.id),
            !.b = DespawnBody(@, e.id),
            !.scores = Del(@, e.id),
            !.weapons = Del(@, e.id),
            !.ev = Append(@, Ev("Despawn", e.id, None, 0, FALSE))]

RECURSIVE AcceptAll(_, _, _)
AcceptAll(acc, q, jit) ==
    IF q = <<>> THEN {acc}
    ELSE UNION {AcceptAll(AcceptEvent(acc, Head(q), pos), Tail(q), jit) :
                  pos \in IF Head(q).k = "conn"
                          THEN Jitter(choose_spawn_point(spawns, acc.players))
                          ELSE {0}}

accept_clients ==
    /\ ran = {}
    /\ srvEvents # <<>>
    /\ \E acc \in AcceptAll([players |-> players, scores |-> scores,
                             weapons |-> weapons, protect |-> protect,
                             b |-> [ents |-> ents, bodies |-> bodies],
                             js |-> jumpSt, ev |-> <<>>], srvEvents, 0) :
         /\ players' = acc.players
         /\ ents' = acc.b.ents
         /\ bodies' = acc.b.bodies
         /\ jumpSt' = acc.js
         /\ scores' = acc.scores
         /\ weapons' = acc.weapons
         /\ protect' = acc.protect
         /\ events' = acc.ev
    /\ srvEvents' = <<>>
    /\ shots' = <<>>
    /\ UNCHANGED lagVars
    /\ UNCHANGED <<clients, inbox, bots, respawns, botRespawns, round, last,
                   lastFire, fires, spawns, botVars, scaffoldVars, ran, tick,
                   sent, hist>>

\* ------------------------------------------ sync_players_with_connections
\* A client leaves at the transport; the server sees a ClientDisconnected
\* event and clients_id() no longer lists the id.
Disconnect(id) ==
    /\ ran = {}
    /\ id \in clients
    /\ clients' = clients \ {id}
    /\ srvEvents' = Append(srvEvents, [k |-> "disc", id |-> id])
    /\ inbox' = [inbox EXCEPT ![id] = <<>>]
    /\ Quiet
    /\ UNCHANGED lagVars
    /\ UNCHANGED entVars
    /\ UNCHANGED jumpSt
    /\ UNCHANGED <<combatVars, round, last, fires, spawns, botVars,
                   scaffoldVars, sent, hist>>

\* One id of the reconciliation pass: a connected id without a player state
\* is added, a player state without a connection is removed.
\* acc = [players, scores, weapons, b, ev]
SyncOne(acc, id) ==
    IF id \in clients
    THEN [acc EXCEPT
            !.players = Put(@, id, [hp |-> FULL_HP, alive |-> TRUE,
                                    pos |-> choose_spawn_point(spawns, acc.players)]),
            !.js = Grounded(@, id),
            !.b = SpawnBody(@, id),
            !.scores = IF id \in DOMAIN @ THEN @
                       ELSE Put(@, id, [kills |-> 0, deaths |-> 0]),
            !.weapons = Put(@, id, FullWeapon),
            !.ev = @ \o <<EvSpawn(id), EvAmmo(id, MAG_SIZE, FALSE), EvScore>>]
    ELSE [acc EXCEPT
            !.players = Del(@, id),
            !.b = DespawnBody(@, id),
            !.scores = Del(@, id),
            !.ev = Append(@, Ev("Despawn", id, None, 0, FALSE))]

RECURSIVE SyncLoop(_, _)
SyncLoop(acc, order) ==
    IF order = <<>> THEN acc
    ELSE SyncLoop(SyncOne(acc, Head(order)), Tail(order))

sync_players_with_connections ==
    /\ ran = {}
    /\ \E add \in Perms(clients \ DOMAIN players),
          rem \in Perms(DOMAIN players \ clients) :
         LET acc == SyncLoop([players |-> players, scores |-> scores,
                              weapons |-> weapons,
                              b |-> [ents |-> ents, bodies |-> bodies],
                              js |-> jumpSt, ev |-> <<>>], add \o rem)
         IN /\ players' = acc.players
            /\ scores' = acc.scores
            /\ weapons' = acc.weapons
            /\ ents' = acc.b.ents
            /\ bodies' = acc.b.bodies
            /\ jumpSt' = acc.js
            /\ events' = acc.ev
    /\ shots' = <<>>
    /\ UNCHANGED lagVars
    /\ UNCHANGED <<clients, inbox, srvEvents, bots, protect, respawns,
                   botRespawns, round, last, lastFire, fires, spawns, botVars,
                   scaffoldVars, ran, tick, sent, hist>>

\* -------------------------------------------------------------- ensure_bots
ensure_bots ==
    /\ ran = {}
    /\ Cardinality(DOMAIN bots) < DESIRED_BOTS
    /\ \E id \in BotIds \ DOMAIN bots :
         /\ bots' = Put(bots, id, [hp |-> FULL_HP, alive |-> TRUE])
         /\ weapons' = Put(weapons, id, FullWeapon)
         /\ protect' = Put(protect, id, PROTECT_SEC)
         /\ events' = <<EvSpawn(id)>>
         /\ ents' = SpawnBody([ents |-> ents, bodies |-> bodies], id).ents
         /\ bodies' = SpawnBody([ents |-> ents, bodies |-> bodies], id).bodies
    /\ UNCHANGED jumpSt
    /\ shots' = <<>>
    /\ UNCHANGED lagVars
    /\ UNCHANGED <<clients, inbox, srvEvents, players, respawns, botRespawns,
                   scores, round, last, lastFire, fires, spawns, botVars,
                   scaffoldVars, ran, tick, sent, hist>>

\* ------------------------------------------------- srv_shoot_and_respawn
\* The working state of one run of the system:
\*   p players, b bots, w weapons, pr protect, lf lastFire, rs respawns,
\*   brs botRespawns, sc scores, fm the firemap (shooters with a pending
\*   explicit fire of non-zero direction), ev events, sh shots, g history.
Rays == {"none", "target", "blocker"}
RayInputs == [target : Actors \cup {None}, ray : Rays]

Shot(by, path, target, ray) ==
    [by |-> by, path |-> path, target |-> target,
     ray |-> IF target = None THEN "none" ELSE ray]

\* Weapon timers that run out without refilling the magazine.
TickWeaponNoRefill(w, dt) ==
    [ammo |-> w.ammo, cooldown |-> TickDown(w.cooldown, dt),
     reload |-> TickDown(w.reload, dt)]

\* Weapon timers tick first; a reload that reaches zero refills the magazine.
TickWeapon(w, dt) ==
    LET cd == TickDown(w.cooldown, dt)
        rl == TickDown(w.reload, dt)
    IN [ammo |-> IF w.reload > 0 /\ rl = 0 THEN MAG_SIZE ELSE w.ammo,
        cooldown |-> cd, reload |-> rl]

TickWeapons(ws, dt) == [id \in DOMAIN ws |-> TickWeapon(ws[id], dt)]

\* A reload that runs out without announcing the refilled magazine.
ReloadEventsSilent(ws, dt, ids) == <<>>

RECURSIVE ReloadEvents(_, _, _)
ReloadEvents(ws, dt, ids) ==
    IF ids = {} THEN <<>>
    ELSE LET id == CHOOSE x \in ids : TRUE
         IN (IF ws[id].reload > 0 /\ TickDown(ws[id].reload, dt) = 0
             THEN <<EvAmmo(id, MAG_SIZE, FALSE)>> ELSE <<>>)
            \o ReloadEvents(ws, dt, ids \ {id})

\* A kill that is booked twice.
AddKillTwice(sc, id) ==
    LET e == Get(sc, id, [kills |-> 0, deaths |-> 0])
    IN Put(sc, id, [e EXCEPT !.kills = @ + 2])

AddKill(sc, id) ==
    LET e == Get(sc, id, [kills |-> 0, deaths |-> 0])
    IN Put(sc, id, [e EXCEPT !.kills = @ + 1])

\* A death that is also booked as a kill.
AddDeathCountsKill(sc, id) ==
    LET e == Get(sc, id, [kills |-> 0, deaths |-> 0])
    IN Put(sc, id, [e EXCEPT !.deaths = @ + 1, !.kills = @ + 1])

AddDeath(sc, id) ==
    LET e == Get(sc, id, [kills |-> 0, deaths |-> 0])
    IN Put(sc, id, [e EXCEPT !.deaths = @ + 1])

\* Damage to a bot that empties its hp without marking it dead.
DamageBotStaysAlive(st, id, tid) ==
    LET hit == st.b[tid]
        hp1 == SatSub(hit.hp, SHOT_DMG)
    IN IF ~hit.alive THEN st
       ELSE [st EXCEPT !.b[tid].hp = hp1, !.ev = Append(@, EvHit(tid, hp1, id))]

\* A kill of a human that starts no respawn timer.
DamageHumanInputNoTimer(st, id, tid) ==
    LET hit == st.p[tid]
        hp1 == SatSub(hit.hp, SHOT_DMG)
    IN IF ~hit.alive THEN st
       ELSE IF hp1 # 0
       THEN [st EXCEPT !.p[tid].hp = hp1, !.ev = Append(@, EvHit(tid, hp1, id))]
       ELSE [st EXCEPT !.p[tid].hp = 0, !.p[tid].alive = FALSE,
                       !.ev = @ \o <<EvHit(tid, 0, id), EvDeath(tid, id), EvScore>>]

\* Damage to a bot that does not look at its alive flag.
DamageBotHitsDead(st, id, tid) ==
    LET hp1 == SatSub(st.b[tid].hp, SHOT_DMG)
    IN IF hp1 # 0
       THEN [st EXCEPT !.b[tid].hp = hp1, !.ev = Append(@, EvHit(tid, hp1, id))]
       ELSE [st EXCEPT !.b[tid] = [hp |-> 0, alive |-> FALSE],
                       !.ev = @ \o <<EvHit(tid, 0, id), EvDeath(tid, id)>>,
                       !.brs = Put(@, tid, RESPAWN_DELAY)]

\* Damage to a bot, the same on both human fire paths.
DamageBot(st, id, tid) ==
    LET hit == st.b[tid]
        hp1 == SatSub(hit.hp, SHOT_DMG)
    IN IF ~hit.alive THEN st
       ELSE IF hp1 # 0
       THEN [st EXCEPT !.b[tid].hp = hp1, !.ev = Append(@, EvHit(tid, hp1, id))]
       ELSE [st EXCEPT !.b[tid] = [hp |-> 0, alive |-> FALSE],
                       !.ev = @ \o <<EvHit(tid, 0, id), EvDeath(tid, id)>>,
                       !.brs = Put(@, tid, RESPAWN_DELAY)]

\* Damage to a human on the explicit fire path: a kill credits the shooter.
DamageHumanExplicit(st, id, tid) ==
    LET hit == st.p[tid]
        hp1 == SatSub(hit.hp, SHOT_DMG)
    IN IF ~hit.alive THEN st
       ELSE IF hp1 # 0
       THEN [st EXCEPT !.p[tid].hp = hp1, !.ev = Append(@, EvHit(tid, hp1, id))]
       ELSE [st EXCEPT !.p[tid].hp = 0, !.p[tid].alive = FALSE,
                       !.ev = @ \o <<EvHit(tid, 0, id), EvDeath(tid, id)>>,
                       !.rs = Put(@, tid, RESPAWN_DELAY),
                       !.sc = IF id \in DOMAIN st.p THEN AddKill(@, id) ELSE @]

\* Damage to a human on the input-flag path: a kill credits the shooter and
\* the victim, broadcasts the score table and starts a reload of an empty
\* magazine.
DamageHumanInput(st, id, tid) ==
    LET hit == st.p[tid]
        hp1 == SatSub(hit.hp, SHOT_DMG)
        ww == Get(st.w, id, FullWeapon)
        auto == ww.ammo = 0 /\ ww.reload <= 0
    IN IF ~hit.alive THEN st
       ELSE IF hp1 # 0
       THEN [st EXCEPT !.p[tid].hp = hp1, !.ev = Append(@, EvHit(tid, hp1, id))]
       ELSE [st EXCEPT !.p[tid].hp = 0, !.p[tid].alive = FALSE,
                       !.rs = Put(@, tid, RESPAWN_DELAY),
                       !.sc = LET s1 == IF id \in DOMAIN st.p THEN AddKill(@, id) ELSE @
                              IN IF tid \in DOMAIN st.p THEN AddDeath(s1, tid) ELSE s1,
                       !.w = Put(@, id, IF auto THEN [ww EXCEPT !.reload = RELOAD_TIME]
                                        ELSE ww),
                       !.ev = @ \o <<EvHit(tid, 0, id), EvDeath(tid, id), EvScore>>
                                \o (IF auto THEN <<EvAmmo(id, ww.ammo, TRUE)>> ELSE <<>>)]

\* Combat resolution that forgets to record the sequence number it acted on.
MarkSeqForgets(st, id, seq) ==
    [st EXCEPT !.lf = Put(@, id, Get(@, id, 0))]

\* The sequence number combat resolution records as processed.
MarkSeq(st, id, seq) ==
    [st EXCEPT !.lf = Put(@, id, seq),
               !.g.maxSeq = Put(@, id, Max(Get(@, id, 0), seq))]

\* An explicit shot that takes no round from the magazine.
ExplicitFireFree(st, id, o) ==
    LET w0 == Get(st.w, id, FullWeapon)
        \* history: one more fire request taken through the explicit path
        st0 == MarkSeq([st EXCEPT !.w = Put(@, id, w0), !.fm = @ \ {id},
                                  !.g.resolved = @ + 1],
                       id, last[id].seq)
    IN IF ~(w0.reload <= 0 /\ w0.cooldown <= 0 /\ Get(protect, id, 0) <= 0) THEN st0
       ELSE IF w0.ammo = 0
       THEN [st0 EXCEPT !.w[id].reload = RELOAD_TIME,
                        !.ev = Append(@, EvAmmo(id, 0, TRUE))]
       ELSE
         LET w1 == [w0 EXCEPT !.cooldown = FIRE_COOLDOWN]
             cands == {x \in DOMAIN st.p : x # id /\ st.p[x].alive}
                      \cup {x \in DOMAIN st.b : x # id /\ st.b[x].alive}
             best == IF o.target \in cands THEN o.target ELSE None
             accepted == best # None /\ o.ray = "target"
             st1 == [st0 EXCEPT !.w[id] = w1,
                                !.ev = @ \o <<EvAmmo(id, w1.ammo, FALSE), EvFire(id)>>,
                                !.sh = Append(@, Shot(id, "explicit", best, o.ray))]
         IN IF ~accepted \/ Get(protect, best, 0) > 0 THEN st1
            ELSE IF best \in DOMAIN st1.p THEN DamageHumanExplicit(st1, id, best)
            ELSE IF best \in DOMAIN st1.b THEN DamageBot(st1, id, best)
            ELSE st1

\* An explicit fire request of shooter id (lines 1187-1230).
ExplicitFire(st, id, o) ==
    LET w0 == Get(st.w, id, FullWeapon)
        \* history: one more fire request taken through the explicit path
        st0 == MarkSeq([st EXCEPT !.w = Put(@, id, w0), !.fm = @ \ {id},
                                  !.g.resolved = @ + 1],
                       id, last[id].seq)
    IN IF ~(w0.reload <= 0 /\ w0.cooldown <= 0 /\ Get(protect, id, 0) <= 0) THEN st0
       ELSE IF w0.ammo = 0
       THEN [st0 EXCEPT !.w[id].reload = RELOAD_TIME,
                        !.ev = Append(@, EvAmmo(id, 0, TRUE))]
       ELSE
         LET w1 == [w0 EXCEPT !.ammo = SatSub(@, 1), !.cooldown = FIRE_COOLDOWN]
             cands == {x \in DOMAIN st.p : x # id /\ st.p[x].alive}
                      \cup {x \in DOMAIN st.b : x # id /\ st.b[x].alive}
             best == IF o.target \in cands THEN o.target ELSE None
             accepted == best # None /\ o.ray = "target"
             st1 == [st0 EXCEPT !.w[id] = w1,
                                !.ev = @ \o <<EvAmmo(id, w1.ammo, FALSE), EvFire(id)>>,
                                !.sh = Append(@, Shot(id, "explicit", best, o.ray))]
         IN IF ~accepted \/ Get(protect, best, 0) > 0 THEN st1
            ELSE IF best \in DOMAIN st1.p THEN DamageHumanExplicit(st1, id, best)
            ELSE IF best \in DOMAIN st1.b THEN DamageBot(st1, id, best)
            ELSE st1

\* An input-flag shot that ignores the protection of its target.
InputFireIgnoresProtection(st, id, o, snapAlive) ==
    LET w0 == Get(st.w, id, FullWeapon)
        ls == Get(st.lf, id, 0)
        inp == last[id]
        st0 == [st EXCEPT !.w = Put(@, id, w0), !.lf = Put(@, id, ls)]
    IN IF ~(inp.fire /\ inp.seq # ls /\ snapAlive[id]) THEN st0
       ELSE
         LET st1 == MarkSeq(st0, id, inp.seq)
         IN IF w0.reload > 0 \/ w0.cooldown > 0 THEN st1
            ELSE IF Get(protect, id, 0) > 0 THEN st1
            ELSE IF w0.ammo = 0
            THEN [st1 EXCEPT !.w[id].reload = RELOAD_TIME,
                             !.ev = Append(@, EvAmmo(id, 0, TRUE))]
            ELSE
              LET w1 == [w0 EXCEPT !.ammo = SatSub(@, 1), !.cooldown = FIRE_COOLDOWN]
                  cands == {x \in DOMAIN snapAlive : x # id /\ snapAlive[x]}
                  best == IF o.target \in cands THEN o.target ELSE None
                  st2 == [st1 EXCEPT
                            !.w[id] = w1,
                            !.ev = @ \o <<EvAmmo(id, w1.ammo, FALSE), EvFire(id)>>,
                            !.sh = Append(@, Shot(id, "input", best, o.ray)),
                            !.g.inShots = Put(@, id, Get(@, id, 0) + 1)]
              IN IF best = None THEN st2
                 ELSE IF best \in DOMAIN st2.p /\ o.ray = "blocker" THEN st2
                 ELSE IF best \in DOMAIN st2.p THEN DamageHumanInput(st2, id, best)
                 ELSE IF best \in DOMAIN st2.b THEN DamageBot(st2, id, best)
                 ELSE st2

\* The fire flag of the latest input frame of shooter id (lines 1231-1337).
InputFire(st, id, o, snapAlive) ==
    LET w0 == Get(st.w, id, FullWeapon)
        ls == Get(st.lf, id, 0)
        inp == last[id]
        st0 == [st EXCEPT !.w = Put(@, id, w0), !.lf = Put(@, id, ls)]
    IN IF ~(inp.fire /\ inp.seq # ls /\ snapAlive[id]) THEN st0
       ELSE
         LET st1 == MarkSeq(st0, id, inp.seq)
         IN IF w0.reload > 0 \/ w0.cooldown > 0 THEN st1
            ELSE IF Get(protect, id, 0) > 0 THEN st1
            ELSE IF w0.ammo = 0
            THEN [st1 EXCEPT !.w[id].reload = RELOAD_TIME,
                             !.ev = Append(@, EvAmmo(id, 0, TRUE))]
            ELSE
              LET w1 == [w0 EXCEPT !.ammo = SatSub(@, 1), !.cooldown = FIRE_COOLDOWN]
                  cands == {x \in DOMAIN snapAlive : x # id /\ snapAlive[x]}
                  best == IF o.target \in cands THEN o.target ELSE None
                  st2 == [st1 EXCEPT
                            !.w[id] = w1,
                            !.ev = @ \o <<EvAmmo(id, w1.ammo, FALSE), EvFire(id)>>,
                            !.sh = Append(@, Shot(id, "input", best, o.ray)),
                            !.g.inShots = Put(@, id, Get(@, id, 0) + 1)]
              IN IF best = None THEN st2
                 ELSE IF Get(protect, best, 0) > 0 THEN st2
                 ELSE IF best \in DOMAIN st2.p /\ o.ray = "blocker" THEN st2
                 ELSE IF best \in DOMAIN st2.p THEN DamageHumanInput(st2, id, best)
                 ELSE IF best \in DOMAIN st2.b THEN DamageBot(st2, id, best)
                 ELSE st2

\* One iteration of the loop over the start-of-tick snapshot.
ShootOne(st, id, o, snapAlive) ==
    IF id \notin DOMAIN last THEN st
    ELSE IF id \in st.fm THEN ExplicitFire(st, id, o)
    ELSE InputFire(st, id, o, snapAlive)

RECURSIVE ShootLoop(_, _, _, _)
ShootLoop(st, order, orc, snapAlive) ==
    IF order = <<>> THEN st
    ELSE ShootLoop(ShootOne(st, Head(order), orc[Head(order)], snapAlive),
                   Tail(order), orc, snapAlive)

\* A respawn whose timer ran out (lines 1347-1371).
RespawnOne(st, pid) ==
    LET spawn == choose_spawn_point(spawns, st.p)
        st1 == [st EXCEPT !.rs = Del(@, pid),
                          !.w = Put(@, pid, FullWeapon)]
    IN IF pid \in DOMAIN st.p
       THEN [st1 EXCEPT !.p[pid] = [hp |-> FULL_HP, alive |-> TRUE, pos |-> spawn],
                        !.pr = Put(@, pid, PROTECT_SEC),
                        !.ev = @ \o <<EvSpawn(pid), EvAmmo(pid, MAG_SIZE, FALSE)>>]
       ELSE [st1 EXCEPT !.ev = Append(@, EvAmmo(pid, MAG_SIZE, FALSE))]

RECURSIVE RespawnLoop(_, _)
RespawnLoop(st, order) ==
    IF order = <<>> THEN st
    ELSE RespawnLoop(RespawnOne(st, Head(order)), Tail(order))

\* Shooters that will consume a round in this run, given the ticked weapons:
\* only their ray inputs matter.
WillShoot(ws, fm, id) ==
    /\ id \in DOMAIN last
    /\ LET w == Get(ws, id, FullWeapon)
       IN /\ w.reload <= 0 /\ w.cooldown <= 0 /\ w.ammo > 0
          /\ Get(protect, id, 0) <= 0
          /\ \/ id \in fm
             \/ /\ last[id].fire
                /\ last[id].seq # Get(lastFire, id, 0)
                /\ players[id].alive

NoRay == [target |-> None, ray |-> "none"]

srv_shoot_and_respawn(dt) ==
    /\ "shoot" \notin ran
    /\ ran' = ran \cup {"shoot"}
    /\ IF round.phase # "Active"
       THEN /\ events' = <<>>
            /\ shots' = <<>>
            /\ UNCHANGED <<combatVars, fires, hist, jumpSt>>
       ELSE
         LET ws == TickWeapons(weapons, dt)
             snapAlive == [x \in DOMAIN players \cup DOMAIN bots |->
                             IF x \in DOMAIN players THEN players[x].alive
                             ELSE bots[x].alive]
             fm == {f.id : f \in {g \in Range(fires) : g.ok}}
             shooters == {id \in DOMAIN players : WillShoot(ws, fm, id)}
             st0 == [p |-> players, b |-> bots, w |-> ws, pr |-> protect,
                     lf |-> lastFire, rs |-> respawns, brs |-> botRespawns,
                     sc |-> scores, fm |-> fm,
                     ev |-> ReloadEvents(weapons, dt, DOMAIN weapons),
                     sh |-> <<>>, g |-> [hist EXCEPT !.resolved = 0]]
         IN \E order \in Perms(DOMAIN players) :
            \E rays \in [shooters -> RayInputs] :
              LET orc == [id \in DOMAIN players |->
                            IF id \in shooters THEN rays[id] ELSE NoRay]
                  st1 == ShootLoop(st0, order, orc, snapAlive)
                  st2 == [st1 EXCEPT
                            !.pr = [x \in DOMAIN @ |-> TickDown(@[x], dt)],
                            !.rs = [x \in DOMAIN @ |-> @[x] - dt]]
                  due == {x \in DOMAIN st2.rs : st2.rs[x] <= 0}
              IN \E rorder \in Perms(due) :
                   LET st3 == RespawnLoop(st2, rorder)
                   IN /\ players' = st3.p
                      /\ bots' = st3.b
                      /\ weapons' = st3.w
                      /\ protect' = st3.pr
                      /\ lastFire' = st3.lf
                      /\ respawns' = st3.rs
                      /\ botRespawns' = st3.brs
                      /\ scores' = st3.sc
                      /\ events' = st3.ev
                      /\ shots' = st3.sh
                      /\ hist' = st3.g
                      /\ fires' = <<>>
                      /\ jumpSt' = GroundedAll(jumpSt, due \cap DOMAIN st2.p)
    /\ UNCHANGED lagVars
    /\ UNCHANGED entVars
    /\ UNCHANGED <<clients, inbox, srvEvents, round, last, spawns, botVars,
                   scaffoldVars, tick, sent>>

\* ------------------------------------------------ bot_ai_perception_and_fsm
\* seen: the nearest visible human within range (None if there is none) and
\* whether its distance lies in the desired band.
PerceiveOne(acc, id, seen, dt) ==
    LET entry == Get(acc.fsm, id, [st |-> "Wander", timer |-> 0])
        tgt == Get(acc.tgt, id, None)
        acc0 == [acc EXCEPT !.fsm = Put(@, id, entry), !.tgt = Put(@, id, tgt)]
    IN IF seen.id # None
       THEN [acc0 EXCEPT !.tgt[id] = seen.id,
                         !.los = Put(@, id, 0),
                         !.fsm[id] = [st |-> IF seen.band THEN "Combat" ELSE "Seek",
                                      timer |-> 0]]
       ELSE
         \* the missing-sight time only matters up to the grace period
         LET miss == Min(Get(acc.los, id, 0) + dt, BOT_LOS_GRACE_SEC)
         IN IF tgt # None /\ miss >= BOT_LOS_GRACE_SEC
            THEN [acc0 EXCEPT !.tgt[id] = None,
                              !.los = Put(@, id, 0),
                              !.fsm[id] = [st |-> "Lost",
                                           timer |-> BOT_LOST_TO_WANDER_SEC]]
            ELSE IF entry.st = "Lost"
            THEN LET t1 == TickDown(entry.timer, dt)
                 IN [acc0 EXCEPT !.los = Put(@, id, miss),
                                 !.fsm[id] = [st |-> IF t1 = 0 THEN "Wander" ELSE "Lost",
                                              timer |-> t1]]
            ELSE [acc0 EXCEPT !.los = Put(@, id, miss),
                              !.fsm[id].st = "Wander"]

RECURSIVE PerceiveLoop(_, _, _, _)
PerceiveLoop(acc, ids, see, dt) ==
    IF ids = {} THEN acc
    ELSE LET id == CHOOSE x \in ids : TRUE
         IN PerceiveLoop(PerceiveOne(acc, id, see[id], dt), ids \ {id}, see, dt)

bot_ai_perception_and_fsm(dt) ==
    /\ "perceive" \notin ran
    /\ ran' = ran \cup {"perceive"}
    /\ LET alive == {id \in DOMAIN bots : bots[id].alive}
           visible == {x \in DOMAIN players : players[x].alive}
       IN \E see \in [alive -> [id : visible, band : BOOLEAN]
                               \cup {[id |-> None, band |-> FALSE]}] :
            LET acc == PerceiveLoop([fsm |-> botFsm, tgt |-> botTarget,
                                     los |-> botLos], alive, see, dt)
            IN /\ botFsm' = acc.fsm
               /\ botTarget' = acc.tgt
               /\ botLos' = acc.los
    /\ events' = <<>>
    /\ shots' = <<>>
    /\ UNCHANGED lagVars
    /\ UNCHANGED entVars
    /\ UNCHANGED jumpSt
    /\ UNCHANGED <<clients, inbox, srvEvents, combatVars, round, last, fires,
                   spawns, botFocus, scaffoldVars, tick, sent, hist>>

\* -------------------------------------------------- bot_ai_shoot_and_respawn
\* A bot that fires whatever its state.
BotShootOneAnyState(acc, id, o, dt) ==
    IF ~bots[id].alive THEN acc
    ELSE
      LET w == Get(acc.w, id, FullWeapon)
          acc0 == [acc EXCEPT !.w = Put(@, id, w)]
      IN IF w.reload > 0 \/ w.cooldown > 0 THEN acc0
         ELSE IF Get(protect, id, 0) > 0 THEN acc0
         ELSE IF w.ammo = 0 THEN [acc0 EXCEPT !.w[id].reload = RELOAD_TIME]
         ELSE IF o.target = None THEN acc0
         ELSE
           LET tid == o.target
               f0 == Get(acc.focus, id, [tgt |-> None, t |-> 0])
               \* the focus time only matters up to the reaction delay
               f1 == IF f0.tgt = tid
                     THEN [tgt |-> tid, t |-> Min(f0.t + dt, BOT_REACT_SEC)]
                     ELSE [tgt |-> tid, t |-> 0]
               acc1 == [acc0 EXCEPT !.focus = Put(@, id, f1)]
           IN IF f1.t < BOT_REACT_SEC THEN acc1
              ELSE IF Get(protect, tid, 0) > 0 THEN acc1
              ELSE
                LET acc2 == [acc1 EXCEPT !.ev = Append(@, EvFire(id)),
                                         !.sh = Append(@, Shot(id, "bot", tid, o.ray))]
                    hit == acc2.p[tid]
                    hp1 == SatSub(hit.hp, BOT_DMG)
                    acc3 == IF ~hit.alive THEN acc2
                            ELSE IF hp1 # 0
                            THEN [acc2 EXCEPT !.p[tid].hp = hp1,
                                              !.ev = Append(@, EvHit(tid, hp1, id))]
                            ELSE [acc2 EXCEPT
                                    !.p[tid].hp = 0, !.p[tid].alive = FALSE,
                                    !.ev = @ \o <<EvHit(tid, 0, id), EvDeath(tid, id)>>,
                                    !.rs = Put(@, tid, RESPAWN_DELAY),
                                    !.sc = AddDeath(@, tid)]
                IN IF o.ray = "blocker" THEN acc2
                   ELSE [acc3 EXCEPT
                           !.w[id] = [ammo |-> SatSub(SatSub(w.ammo, 1), 1),
                                      cooldown |-> BOT_FIRE_COOLDOWN,
                                      reload |-> w.reload]]

\* acc = [p, w, rs, sc, focus, ev, sh]; o = [target, ray]: the nearest alive
\* human within fire range and the result of the occlusion ray.
BotShootOne(acc, id, o, dt) ==
    IF ~bots[id].alive \/ Get(botFsm, id, [st |-> "Wander"]).st # "Combat" THEN acc
    ELSE
      LET w == Get(acc.w, id, FullWeapon)
          acc0 == [acc EXCEPT !.w = Put(@, id, w)]
      IN IF w.reload > 0 \/ w.cooldown > 0 THEN acc0
         ELSE IF Get(protect, id, 0) > 0 THEN acc0
         ELSE IF w.ammo = 0 THEN [acc0 EXCEPT !.w[id].reload = RELOAD_TIME]
         ELSE IF o.target = None THEN acc0
         ELSE
           LET tid == o.target
               f0 == Get(acc.focus, id, [tgt |-> None, t |-> 0])
               \* the focus time only matters up to the reaction delay
               f1 == IF f0.tgt = tid
                     THEN [tgt |-> tid, t |-> Min(f0.t + dt, BOT_REACT_SEC)]
                     ELSE [tgt |-> tid, t |-> 0]
               acc1 == [acc0 EXCEPT !.focus = Put(@, id, f1)]
           IN IF f1.t < BOT_REACT_SEC THEN acc1
              ELSE IF Get(protect, tid, 0) > 0 THEN acc1
              ELSE
                LET acc2 == [acc1 EXCEPT !.ev = Append(@, EvFire(id)),
                                         !.sh = Append(@, Shot(id, "bot", tid, o.ray))]
                    hit == acc2.p[tid]
                    hp1 == SatSub(hit.hp, BOT_DMG)
                    acc3 == IF ~hit.alive THEN acc2
                            ELSE IF hp1 # 0
                            THEN [acc2 EXCEPT !.p[tid].hp = hp1,
                                              !.ev = Append(@, EvHit(tid, hp1, id))]
                            ELSE [acc2 EXCEPT
                                    !.p[tid].hp = 0, !.p[tid].alive = FALSE,
                                    !.ev = @ \o <<EvHit(tid, 0, id), EvDeath(tid, id)>>,
                                    !.rs = Put(@, tid, RESPAWN_DELAY),
                                    !.sc = AddDeath(@, tid)]
                IN IF o.ray = "blocker" THEN acc2
                   ELSE [acc3 EXCEPT
                           !.w[id] = [ammo |-> SatSub(SatSub(w.ammo, 1), 1),
                                      cooldown |-> BOT_FIRE_COOLDOWN,
                                      reload |-> w.reload]]

RECURSIVE BotShootLoop(_, _, _, _)
BotShootLoop(acc, order, orc, dt) ==
    IF order = <<>> THEN acc
    ELSE BotShootLoop(BotShootOne(acc, Head(order), orc[Head(order)], dt),
                      Tail(order), orc, dt)

\* A bot respawn whose timer ran out (lines 1114-1133).
RECURSIVE BotRespawnLoop(_, _)
BotRespawnLoop(acc, ids) ==
    IF ids = {} THEN acc
    ELSE LET bid == CHOOSE x \in ids : TRUE
             acc1 == [acc EXCEPT !.brs = Del(@, bid)]
         IN BotRespawnLoop(
              IF bid \in DOMAIN acc.b
              THEN [acc1 EXCEPT !.b[bid] = [hp |-> FULL_HP, alive |-> TRUE],
                                !.ev = Append(@, EvSpawn(bid)),
                                !.w = Put(@, bid, FullWeapon),
                                !.pr = Put(@, bid, PROTECT_SEC)]
              ELSE acc1,
              ids \ {bid})

\* How long bot b has kept the same human in its sights without a break: it
\* grows while the bot is alive, in Combat and has that human as its nearest
\* target in range, and starts over on a new target or after any break.
NextRun(run, b, o, dt) ==
    LET prev == Get(run, b, [tgt |-> None, t |-> 0])
    IN IF ~bots[b].alive \/ Get(botFsm, b, [st |-> "Wander"]).st # "Combat"
          \/ o.target = None
       THEN [tgt |-> None, t |-> 0]
       ELSE IF prev.tgt = o.target
       THEN [tgt |-> o.target, t |-> Min(prev.t + dt, BOT_REACT_SEC)]
       ELSE [tgt |-> o.target, t |-> 0]

bot_ai_shoot_and_respawn(dt) ==
    /\ "botshoot" \notin ran
    /\ ran' = ran \cup {"botshoot"}
    /\ LET aliveH == {x \in DOMAIN players : players[x].alive}
       IN \E order \in Perms(DOMAIN bots) :
          \E orc \in [DOMAIN bots -> [target : aliveH \cup {None}, ray : Rays]] :
            LET a1 == BotShootLoop([p |-> players, w |-> weapons, rs |-> respawns,
                                    sc |-> scores, focus |-> botFocus,
                                    ev |-> <<>>, sh |-> <<>>], order, orc, dt)
                brs1 == [x \in DOMAIN botRespawns |-> botRespawns[x] - dt]
                a2 == BotRespawnLoop([b |-> bots, w |-> a1.w, pr |-> protect,
                                      brs |-> brs1, ev |-> a1.ev],
                                     {x \in DOMAIN brs1 : brs1[x] <= 0})
            IN /\ players' = a1.p
               /\ respawns' = a1.rs
               /\ scores' = a1.sc
               /\ botFocus' = a1.focus
               /\ hist' = [hist EXCEPT !.run = [b \in DOMAIN bots |->
                                                  NextRun(hist.run, b, orc[b], dt)]]
               /\ shots' = a1.sh
               /\ bots' = a2.b
               /\ weapons' = a2.w
               /\ protect' = a2.pr
               /\ botRespawns' = a2.brs
               /\ events' = a2.ev
    /\ UNCHANGED lagVars
    /\ UNCHANGED entVars
    /\ UNCHANGED jumpSt
    /\ UNCHANGED <<clients, inbox, srvEvents, round, last, lastFire, fires, spawns,
                   botFsm, botTarget, botLos, scaffoldVars, tick, sent>>

\* ------------------------------------------------ process_scaffold_requests
\* A scaffold event (sid in the n field).
EvScaffoldSpawn(sid, owner) == Ev("ScaffoldSpawn", owner, None, sid, FALSE)
EvScaffoldDespawn(sid) == Ev("ScaffoldDespawn", None, None, sid, FALSE)

\* A placement that never evicts the owner's oldest scaffold.
PlaceOneNoLimit(acc, owner) ==
    IF owner \notin DOMAIN players
    THEN [acc EXCEPT !.pend = Append(@, owner)]
    ELSE LET sid == acc.next
         IN [acc EXCEPT
               !.sc.per_owner = Put(@, owner, Append(Get(@, owner, <<>>), sid)),
               !.sc.by_id = Put(@, sid, [owner |-> owner, life |-> SCAFFOLD_LIFETIME]),
               !.next = sid + 1,
               !.ev = Append(@, EvScaffoldSpawn(sid, owner))]

\* A placement at the limit that evicts the owner's newest scaffold.
PlaceOneEvictsNewest(acc, owner) ==
    IF owner \notin DOMAIN players
    THEN [acc EXCEPT !.pend = Append(@, owner)]
    ELSE LET vec == Get(acc.sc.per_owner, owner, <<>>)
             full == Len(vec) >= SCAFFOLD_PER_PLAYER_LIMIT
             old == vec[Len(vec)]
             vec1 == IF full THEN SubSeq(vec, 1, Len(vec) - 1) ELSE vec
             by1 == IF full THEN Del(acc.sc.by_id, old) ELSE acc.sc.by_id
             sid == acc.next
         IN [sc |-> [per_owner |-> Put(acc.sc.per_owner, owner, Append(vec1, sid)),
                     by_id |-> Put(by1, sid, [owner |-> owner,
                                              life |-> SCAFFOLD_LIFETIME])],
             next |-> sid + 1,
             pend |-> acc.pend,
             ev |-> acc.ev \o (IF full THEN <<EvScaffoldDespawn(old)>> ELSE <<>>)
                          \o <<EvScaffoldSpawn(sid, owner)>>]

\* One drained request; acc = [sc, next, pend, ev].  A request whose owner is
\* not a registered player goes back to the queue; otherwise the owner's
\* oldest scaffold is evicted if the owner is at the limit, and the new
\* scaffold gets the next id and the full lifetime (lines 791-855).
PlaceOne(acc, owner) ==
    IF owner \notin DOMAIN players
    THEN [acc EXCEPT !.pend = Append(@, owner)]
    ELSE LET vec == Get(acc.sc.per_owner, owner, <<>>)
             full == Len(vec) >= SCAFFOLD_PER_PLAYER_LIMIT
             old == Head(vec)
             vec1 == IF full THEN Tail(vec) ELSE vec
             by1 == IF full THEN Del(acc.sc.by_id, old) ELSE acc.sc.by_id
             sid == acc.next
         IN [sc |-> [per_owner |-> Put(acc.sc.per_owner, owner, Append(vec1, sid)),
                     by_id |-> Put(by1, sid, [owner |-> owner,
                                              life |-> SCAFFOLD_LIFETIME])],
             next |-> sid + 1,
             pend |-> acc.pend,
             ev |-> acc.ev \o (IF full THEN <<EvScaffoldDespawn(old)>> ELSE <<>>)
                          \o <<EvScaffoldSpawn(sid, owner)>>]

RECURSIVE PlaceLoop(_, _)
PlaceLoop(acc, reqs) ==
    IF reqs = <<>> THEN acc
    ELSE PlaceLoop(PlaceOne(acc, Head(reqs)), Tail(reqs))

\* The map is loaded in every state of the model (MapReady is true).
process_scaffold_requests ==
    /\ "place" \notin ran
    /\ ran' = ran \cup {"place"}
    /\ LET acc == PlaceLoop([sc |-> scaffolds, next |-> nextSid, pend |-> <<>>,
                             ev |-> <<>>], pending)
       IN /\ scaffolds' = acc.sc
          /\ nextSid' = acc.next
          /\ pending' = acc.pend
          /\ events' = acc.ev
    /\ shots' = <<>>
    /\ UNCHANGED lagVars
    /\ UNCHANGED entVars
    /\ UNCHANGED jumpSt
    /\ UNCHANGED <<clients, inbox, srvEvents, combatVars, round, last, fires,
                   spawns, botVars, tick, sent, hist>>

\* -------------------------------------------- scaffold_tick_and_cleanup_srv
\* The sequence s without its first occurrence of x.
RECURSIVE RemoveFirst(_, _)
RemoveFirst(s, x) ==
    IF s = <<>> THEN <<>>
    ELSE IF Head(s) = x THEN Tail(s)
    ELSE <<Head(s)>> \o RemoveFirst(Tail(s), x)

\* An expired scaffold that leaves the table unannounced.
ExpireOneSilent(acc, sid) ==
    IF sid \notin DOMAIN acc.sc.by_id THEN acc
    ELSE LET holders == {o \in DOMAIN acc.sc.per_owner :
                           sid \in Range(acc.sc.per_owner[o])}
         IN [sc |-> [by_id |-> Del(acc.sc.by_id, sid),
                     per_owner |->
                       IF holders = {} THEN acc.sc.per_owner
                       ELSE LET o == CHOOSE x \in holders : TRUE
                            IN [acc.sc.per_owner EXCEPT ![o] = RemoveFirst(@, sid)]],
             ev |-> acc.ev]

\* One expired scaffold leaves the table and the one owner list that holds it.
ExpireOne(acc, sid) ==
    IF sid \notin DOMAIN acc.sc.by_id THEN acc
    ELSE LET holders == {o \in DOMAIN acc.sc.per_owner :
                           sid \in Range(acc.sc.per_owner[o])}
         IN [sc |-> [by_id |-> Del(acc.sc.by_id, sid),
                     per_owner |->
                       IF holders = {} THEN acc.sc.per_owner
                       ELSE LET o == CHOOSE x \in holders : TRUE
                            IN [acc.sc.per_owner EXCEPT ![o] = RemoveFirst(@, sid)]],
             ev |-> Append(acc.ev, EvScaffoldDespawn(sid))]

RECURSIVE ExpireLoop(_, _)
ExpireLoop(acc, order) ==
    IF order = <<>> THEN acc
    ELSE ExpireLoop(ExpireOne(acc, Head(order)), Tail(order))

scaffold_tick_and_cleanup_srv(dt) ==
    /\ "scafftick" \notin ran
    /\ ran' = ran \cup {"scafftick"}
    /\ LET by1 == [sid \in DOMAIN scaffolds.by_id |->
                     [scaffolds.by_id[sid] EXCEPT !.life = @ - dt]]
           expired == {sid \in DOMAIN by1 : by1[sid].life <= 0}
       IN \E order \in Perms(expired) :
            LET acc == ExpireLoop([sc |-> [scaffolds EXCEPT !.by_id = by1],
                                   ev |-> <<>>], order)
            IN /\ scaffolds' = acc.sc
               /\ events' = acc.ev
    /\ shots' = <<>>
    /\ UNCHANGED lagVars
    /\ UNCHANGED entVars
    /\ UNCHANGED jumpSt
    /\ UNCHANGED <<clients, inbox, srvEvents, combatVars, round, last, fires,
                   spawns, botVars, pending, nextSid, tick, sent, hist>>

\* ------------------------------------------------------------- round_update
\* A reset that leaves dead players dead.
RECURSIVE ResetPlayersAliveOnly(_, _, _)
ResetPlayersAliveOnly(p, ev, order) ==
    IF order = <<>> THEN [p |-> p, ev |-> ev]
    ELSE LET id == Head(order)
             spawn == choose_spawn_point(spawns, p)
         IN ResetPlayersAliveOnly(
              IF p[id].alive
              THEN [p EXCEPT ![id] = [hp |-> FULL_HP, alive |-> TRUE, pos |-> spawn]]
              ELSE p,
              Append(ev, EvSpawn(id)), Tail(order))

\* The reset of one human at the end of the Ending phase (lines 1537-1552).
RECURSIVE ResetPlayers(_, _, _)
ResetPlayers(p, ev, order) ==
    IF order = <<>> THEN [p |-> p, ev |-> ev]
    ELSE LET id == Head(order)
             spawn == choose_spawn_point(spawns, p)
         IN ResetPlayers([p EXCEPT ![id] = [hp |-> FULL_HP, alive |-> TRUE,
                                            pos |-> spawn]],
                         Append(ev, EvSpawn(id)), Tail(order))

\* A win check that is off by one kill.
WinnersEarly == {id \in DOMAIN scores : scores[id].kills >= WIN_KILLS - 1}

Winners == {id \in DOMAIN scores : scores[id].kills >= WIN_KILLS}

round_update(dt) ==
    /\ "round" \notin ran
    /\ ran' = ran \cup {"round"}
    /\ IF round.phase = "Active"
       THEN LET left == round.time_left - dt
            IN IF Winners # {} \/ left <= 0
               THEN /\ \E w \in (IF Winners = {} THEN {None} ELSE Winners) :
                         events' = <<EvRoundEnd(w)>>
                    /\ round' = [phase |-> "Ending", time_left |-> left,
                                 end_timer |-> ROUND_END_DELAY_SEC]
                    /\ hist' = [hist EXCEPT !.roundEnds = @ + 1, !.ended = 0]
                    /\ UNCHANGED <<players, respawns, scores, jumpSt>>
               ELSE /\ events' = <<>>
                    /\ round' = [round EXCEPT !.time_left = left]
                    /\ UNCHANGED <<players, respawns, scores, hist, jumpSt>>
       ELSE LET timer == round.end_timer - dt
            IN IF timer <= 0
               THEN \E order \in Perms(DOMAIN players) :
                      LET r == ResetPlayers(players, <<>>, order)
                      IN /\ players' = r.p
                         /\ respawns' = Empty
                         /\ scores' = [id \in DOMAIN scores |->
                                         [kills |-> 0, deaths |-> 0]]
                         /\ events' = r.ev \o <<EvScore, EvRoundStart>>
                         /\ round' = [phase |-> "Active",
                                      time_left |-> ROUND_TIME_SEC,
                                      end_timer |-> timer]
                         /\ hist' = [hist EXCEPT !.roundEnds = 0,
                                                 !.ended = @ + dt]
                         /\ jumpSt' = JumpResetAll(jumpSt, DOMAIN players)
               ELSE /\ events' = <<>>
                    /\ round' = [round EXCEPT !.end_timer = timer]
                    /\ hist' = [hist EXCEPT !.ended = @ + dt]
                    /\ UNCHANGED <<players, respawns, scores, jumpSt>>
    /\ shots' = <<>>
    /\ UNCHANGED lagVars
    /\ UNCHANGED entVars
    /\ UNCHANGED <<clients, inbox, srvEvents, bots, weapons, protect, botRespawns,
                   last, lastFire, fires, spawns, botVars, scaffoldVars, tick,
                   sent>>

\* ------------------------------------------------------- position history
\* srv_kcc_post: after the physics step every human's position is the
\* translation of its entity, which the physics collaborator decides.
srv_kcc_post ==
    /\ "kccpost" \notin ran
    /\ ran' = ran \cup {"kccpost"}
    /\ \E np \in [DOMAIN players -> Positions] :
         players' = [id \in DOMAIN players |-> [players[id] EXCEPT !.pos = np[id]]]
    /\ \E og \in [DOMAIN jumpSt \cap DOMAIN players \cap ents -> {"none", "ground", "air"}] :
         jumpSt' = [id \in DOMAIN jumpSt |->
                      IF id \in DOMAIN og THEN PostOne(jumpSt[id], og[id])
                      ELSE jumpSt[id]]
    /\ events' = <<>>
    /\ shots' = <<>>
    /\ UNCHANGED lagVars
    /\ UNCHANGED entVars
    /\ UNCHANGED <<clients, inbox, srvEvents, bots, weapons, protect, respawns,
                   botRespawns, scores, lastFire, round, last, fires, spawns,
                   botVars, scaffoldVars, tick, sent, hist>>

\* push_back of a sample, then pop_front while the front is older than the
\* retention window.
\* A history that never drops a sample.
PruneNever(dq, now) == dq

RECURSIVE Prune(_, _)
Prune(dq, now) ==
    IF dq # <<>> /\ now - Head(dq).t > HIST_MAX_SEC THEN Prune(Tail(dq), now)
    ELSE dq

Sample(ph, id, now, pos) ==
    Put(ph, id, Prune(Append(Get(ph, id, <<>>), [t |-> now, p |-> pos]), now))

RECURSIVE SampleAll(_, _, _, _)
SampleAll(ph, ids, now, pos) ==
    IF ids = {} THEN ph
    ELSE LET id == CHOOSE x \in ids : TRUE
         IN SampleAll(Sample(ph, id, now, pos[id]), ids \ {id}, now, pos)

\* update_position_history: the clock advances by dt and every human and
\* bot gets a sample of its position (a bot's position is what bot_kcc_post
\* read from the physics collaborator).
update_position_history(dt) ==
    /\ "history" \notin ran
    /\ ran' = ran \cup {"history"}
    /\ simTime' = simTime + dt
    /\ \E bp \in [DOMAIN bots -> Positions] :
         LET pos == [id \in DOMAIN players \cup DOMAIN bots |->
                       IF id \in DOMAIN players THEN players[id].pos ELSE bp[id]]
         IN posHist' = SampleAll(posHist, DOMAIN pos, simTime + dt, pos)
    /\ events' = <<>>
    /\ shots' = <<>>
    /\ UNCHANGED entVars
    /\ UNCHANGED jumpSt
    /\ UNCHANGED <<clients, inbox, srvEvents, combatVars, round, last, fires,
                   spawns, botVars, scaffoldVars, tick, sent, rewound, hist>>

\* Vec3::lerp with the clamped alpha (t - t0) / (t1 - t0), on one axis.
Lerp(s0, s1, t) ==
    LET den == s1.t - s0.t
        a == Max(0, Min(t - s0.t, den))
    IN Frac(s0.p * den + (s1.p - s0.p) * a, den)

\* A rewind that snaps to the first sample at or after the queried time.
rewind_pos_snap(ph, id, t) ==
    LET dq == Get(ph, id, <<>>)
    IN IF dq = <<>> THEN NoPos
       ELSE IF t <= dq[1].t THEN Frac(dq[1].p, 1)
       ELSE IF t >= dq[Len(dq)].t THEN Frac(dq[Len(dq)].p, 1)
       ELSE LET i == CHOOSE k \in 1..Len(dq) :
                       /\ dq[k].t >= t
                       /\ \A j \in 1..(k - 1) : dq[j].t < t
            IN Frac(dq[i].p, 1)

\* rewind_pos: no position without samples; the oldest or newest position outside
\* the retained range; otherwise the interpolation between the first sample
\* at or after t and the sample before it.
rewind_pos(ph, id, t) ==
    LET dq == Get(ph, id, <<>>)
    IN IF dq = <<>> THEN NoPos
       ELSE IF t <= dq[1].t THEN Frac(dq[1].p, 1)
       ELSE IF t >= dq[Len(dq)].t THEN Frac(dq[Len(dq)].p, 1)
       ELSE LET i == CHOOSE k \in 1..Len(dq) :
                       /\ dq[k].t >= t
                       /\ \A j \in 1..(k - 1) : dq[j].t < t
            IN Lerp(dq[IF i = 1 THEN 1 ELSE i - 1], dq[i], t)

\* Times a rewind is asked for: the lag-compensated time of combat
\* resolution, and times at, just around and half-way between the stored
\* samples of the actor.
QueryTimes(id) ==
    {simTime - LAG_COMP_SEC}
    \cup {s.t + o : s \in Range(Get(posHist, id, <<>>)),
                    o \in {0 - 1, 0, 1, HistDT \div 2}}

\* Combat resolution looks up the rewound position of actor id at time t.
RewindQuery(id, t) ==
    /\ ran = {}
    /\ rewound' = [h |-> Get(posHist, id, <<>>), t |-> t,
                   r |-> rewind_pos(posHist, id, t), asked |-> TRUE]
    /\ Quiet
    /\ UNCHANGED entVars
    /\ UNCHANGED jumpSt
    /\ UNCHANGED <<clients, inbox, srvEvents, combatVars, round, last, fires,
                   spawns, botVars, scaffoldVars, sent, posHist, simTime, hist>>

\* ------------------------------------------------------------ tick driver
\* The tick ends when every system of the specification has run.
EndTick(systems) ==
    /\ ran = systems
    /\ ran' = {}
    /\ tick' = Min(tick + 1, MaxTicks)
    /\ events' = <<>>
    /\ shots' = <<>>
    /\ UNCHANGED lagVars
    /\ UNCHANGED entVars
    /\ UNCHANGED jumpSt
    /\ UNCHANGED <<clients, inbox, srvEvents, combatVars, round, last, fires,
                   spawns, botVars, scaffoldVars, sent, hist>>


\* ------------------------------------------------------------------- Init
\* The server right after construction (main()).
\* The unbroken focus of each bot when the state is entered: what its focus
\* entry says while it is in Combat, nothing once it has left Combat.
RunOf(fsm, focus) ==
    [b \in DOMAIN focus |->
       IF b \in DOMAIN fsm /\ fsm[b].st = "Combat" THEN focus[b]
       ELSE [tgt |-> None, t |-> 0]]

InitFresh ==
    /\ clients = {}
    /\ players = Empty /\ bots = Empty /\ weapons = Empty /\ protect = Empty
    /\ respawns = Empty /\ botRespawns = Empty /\ scores = Empty
    /\ round = [phase |-> "Active", time_left |-> ROUND_TIME_SEC, end_timer |-> 0]
    /\ last = Empty /\ lastFire = Empty
    /\ spawns = <<>>
    /\ botFsm = Empty /\ botTarget = Empty /\ botLos = Empty /\ botFocus = Empty
    /\ hist = [inShots |-> Empty, maxSeq |-> Empty, roundEnds |-> 0, ended |-> 0,
               resolved |-> 0, run |-> RunOf(botFsm, botFocus)]

\* A round that has run for LateTicks ticks with both humans and the bot in
\* play, everyone alive and unprotected with idle weapons: h1 has killed h2
\* nine times and is down to its last hit point and its last round, h2 and the
\* bot are wounded, the bot is on its last round and has h1 in focus.  Each
\* human's latest frame (sequence MaxSeq, fire flag set) has been acted on.
InitLate ==
    /\ clients = Humans
    /\ players = [h \in Humans |->
                    [hp |-> IF h = "h1" THEN 1 ELSE 30,
                     alive |-> TRUE, pos |-> IF h = "h1" THEN 0 ELSE 5]]
    /\ bots = [b \in BotIds |-> [hp |-> 30, alive |-> TRUE]]
    /\ weapons = [a \in Actors |->
                    [ammo |-> IF a = "h2" THEN MAG_SIZE ELSE 1,
                     cooldown |-> 0, reload |-> 0]]
    /\ protect = [a \in Actors |-> 0]
    /\ respawns = Empty /\ botRespawns = Empty
    /\ scores = [h \in Humans |->
                   [kills |-> IF h = "h1" THEN WIN_KILLS - 1 ELSE 0,
                    deaths |-> IF h = "h2" THEN WIN_KILLS - 1 ELSE 0]]
    /\ round = [phase |-> "Active",
                time_left |-> ROUND_TIME_SEC - LateTicks * DT, end_timer |-> 0]
    /\ last = [h \in Humans |-> [seq |-> MaxSeq, fire |-> TRUE]]
    /\ lastFire = [h \in Humans |-> MaxSeq]
    /\ spawns = MapSpawns
    /\ botFsm = [b \in BotIds |-> [st |-> "Combat", timer |-> 0]]
    /\ botTarget = [b \in BotIds |-> "h1"]
    /\ botLos = [b \in BotIds |-> 0]
    /\ botFocus = [b \in BotIds |-> [tgt |-> "h1", t |-> BOT_REACT_SEC]]
    /\ hist = [inShots |-> [h \in Humans |-> 1], maxSeq |-> [h \in Humans |-> MaxSeq],
               roundEnds |-> 0, ended |-> 0,
               resolved |-> 0, run |-> RunOf(botFsm, botFocus)]

\* A round whose clock has just run out: the phase is Ending with the whole
\* end delay ahead.  h1 is the only client; it was killed in the last tick
\* (respawn pending) with a partly used magazine; h2 has not connected.
InitEnding ==
    /\ clients = {"h1"}
    /\ players = [h \in {"h1"} |-> [hp |-> 0, alive |-> FALSE, pos |-> 5]]
    /\ bots = [b \in BotIds |-> [hp |-> FULL_HP, alive |-> TRUE]]
    /\ weapons = [a \in {"h1"} \cup BotIds |->
                    [ammo |-> IF a = "h1" THEN 3 ELSE MAG_SIZE,
                     cooldown |-> 0, reload |-> 0]]
    /\ protect = [a \in {"h1"} \cup BotIds |-> 0]
    /\ respawns = [h \in {"h1"} |-> RESPAWN_DELAY]
    /\ botRespawns = Empty
    /\ scores = [h \in {"h1"} |-> [kills |-> 2, deaths |-> 1]]
    /\ round = [phase |-> "Ending",
                time_left |-> ROUND_TIME_SEC - (LateTicks + 2) * DT,
                end_timer |-> ROUND_END_DELAY_SEC]
    /\ last = [h \in {"h1"} |-> [seq |-> MaxSeq, fire |-> TRUE]]
    /\ lastFire = [h \in {"h1"} |-> MaxSeq]
    /\ spawns = MapSpawns
    /\ botFsm = [b \in BotIds |-> [st |-> "Combat", timer |-> 0]]
    /\ botTarget = [b \in BotIds |-> "h1"]
    /\ botLos = [b \in BotIds |-> 0]
    /\ botFocus = [b \in BotIds |-> [tgt |-> "h1", t |-> BOT_REACT_SEC]]
    /\ hist = [inShots |-> [h \in {"h1"} |-> 1], maxSeq |-> [h \in {"h1"} |-> MaxSeq],
               roundEnds |-> 1, ended |-> 0,
               resolved |-> 0, run |-> RunOf(botFsm, botFocus)]

\* Specifications that do not schedule the position sampling leave the
\* position history out.
\* Every registered actor has the one collider entity made when it joined.
\* No player's jumps are followed.
NoMovement == jumpSt = Empty

OneBodyEach ==
    /\ ents = DOMAIN players \cup DOMAIN bots
    /\ bodies = [x \in DOMAIN players \cup DOMAIN bots |-> 1]

NoHistory ==
    /\ posHist = Empty
    /\ simTime = 0
    /\ rewound = NoRewind

InitCommon ==
    /\ NoHistory
    /\ inbox = [h \in Humans |-> <<>>]
    /\ srvEvents = <<>>
    /\ fires = <<>>
    /\ pending = <<>>
    /\ scaffolds = [by_id |-> Empty, per_owner |-> Empty]
    /\ nextSid = 1
    /\ events = <<>>
    /\ shots = <<>>
    /\ ran = {}
    /\ tick = 0
    /\ sent = 0

\* ------------------------------------------------------------------- Spec
\* Combat and round play: the network, message ingestion, both combat systems
\* and the round state machine, for MaxTicks ticks from a late round or from
\* the start of the end delay.
CombatSystems == {"recv", "shoot", "botshoot", "round"}

Init ==
    /\ InitCommon
    /\ InitLate \/ InitEnding
    /\ OneBodyEach
    /\ NoMovement

\* The behaviours of Spec stop after MaxTicks ticks.
Playing == tick < MaxTicks

Next ==
    \/ Playing /\ \E id \in Humans : Connect(id)
    \/ /\ Playing /\ sent < MaxMsgs
       /\ \E id \in Humans, m \in InputMsgs \cup FireMsgs : ClientSend(id, m)
    \/ Playing /\ accept_clients
    \/ Playing /\ recv_inputs
    \/ Playing /\ srv_shoot_and_respawn(DT)
    \/ Playing /\ bot_ai_shoot_and_respawn(DT)
    \/ Playing /\ round_update(DT)
    \/ Playing /\ EndTick(CombatSystems)

Spec == Init /\ [][Next]_vars

\* -------------------------------------------------------------- SpecRound
\* The round state machine over whole rounds: the network is silent apart
\* from connections, so combat resolution only runs its timers and respawns.
\* The FixedUpdate schedule runs every tick for as long as the server runs,
\* which the fairness condition states.
RoundSystems == {"shoot", "round"}

NextRound ==
    \/ \E id \in Humans : Connect(id)
    \/ accept_clients
    \/ srv_shoot_and_respawn(DT)
    \/ round_update(DT)
    \/ EndTick(RoundSystems)

FixedSchedule ==
    \/ srv_shoot_and_respawn(DT)
    \/ round_update(DT)
    \/ EndTick(RoundSystems)

SpecRound == Init /\ [][NextRound]_vars /\ WF_vars(FixedSchedule)

\* ----------------------------------------------------------- SpecScaffold
\* Scaffold placement and expiry: clients send placement requests; message
\* ingestion and the two scaffold systems run every tick.  Either no scaffold
\* exists yet, or h1 already owns SCAFFOLD_PER_PLAYER_LIMIT scaffolds placed
\* two ticks apart, the oldest about to expire.
ScaffoldSystems == {"recv", "place", "scafftick"}

InitScaffolds ==
    \/ /\ scaffolds = [by_id |-> Empty, per_owner |-> Empty]
       /\ nextSid = 1
    \/ /\ scaffolds =
            [by_id |-> [sid \in 1..SCAFFOLD_PER_PLAYER_LIMIT |->
                          [owner |-> "h1",
                           life |-> SCAFFOLD_LIFETIME
                                    - (SCAFFOLD_PER_PLAYER_LIMIT - sid) * 2 * DT]],
             per_owner |-> [h \in {"h1"} |->
                              [i \in 1..SCAFFOLD_PER_PLAYER_LIMIT |-> i]]]
       /\ nextSid = SCAFFOLD_PER_PLAYER_LIMIT + 1

InitScaffold ==
    /\ InitLate
    /\ InitScaffolds
    /\ NoHistory
    /\ inbox = [h \in Humans |-> <<>>]
    /\ srvEvents = <<>> /\ fires = <<>> /\ pending = <<>>
    /\ events = <<>> /\ shots = <<>>
    /\ ran = {} /\ tick = 0 /\ sent = 0
    /\ OneBodyEach
    /\ NoMovement

NextScaffold ==
    \/ /\ Playing /\ sent < MaxPlace
       /\ \E id \in Humans, m \in PlaceMsgs : ClientSend(id, m)
    \/ Playing /\ recv_inputs
    \/ Playing /\ process_scaffold_requests
    \/ Playing /\ scaffold_tick_and_cleanup_srv(DT)
    \/ Playing /\ EndTick(ScaffoldSystems)

SpecScaffold == InitScaffold /\ [][NextScaffold]_vars

\* -------------------------------------------------------------- SpecRewind
\* Position sampling and rewinding: one human and the bot move, the history
\* samples them every tick and drops samples older than HIST_MAX_SEC, and
\* rewind_pos is asked for positions at times inside and outside the
\* retained range.  The server either has just started or has three samples
\* of each actor already.
RewindSystems == {"kccpost", "history"}

InitRewind ==
    /\ InitEnding
    /\ inbox = [h \in Humans |-> <<>>]
    /\ srvEvents = <<>> /\ fires = <<>> /\ pending = <<>>
    /\ scaffolds = [by_id |-> Empty, per_owner |-> Empty] /\ nextSid = 1
    /\ events = <<>> /\ shots = <<>>
    /\ ran = {} /\ tick = 0 /\ sent = 0
    /\ rewound = NoRewind
    /\ \/ posHist = Empty /\ simTime = 0
       \/ /\ simTime = 3 * HistDT
          /\ posHist = [a \in DOMAIN players \cup DOMAIN bots |->
                          <<[t |-> HistDT, p |-> 0], [t |-> 2 * HistDT, p |-> 9],
                            [t |-> 3 * HistDT, p |-> 5]>>]
    /\ OneBodyEach
    /\ NoMovement

NextRewind ==
    \/ Playing /\ srv_kcc_post
    \/ Playing /\ update_position_history(HistDT)
    \/ Playing /\ \E id \in Actors : \E t \in QueryTimes(id) : RewindQuery(id, t)
    \/ Playing /\ EndTick(RewindSystems)

SpecRewind == InitRewind /\ [][NextRewind]_vars

\* ----------------------------------------------------------------- SpecMag
\* One magazine: h1 is alone with the bot, both unhurt with full magazines
\* and no protection left, nobody has scored and the bot wanders (it has no
\* target).  h1 holds the trigger: it sends at most one input frame per tick,
\* each with the fire flag, MaxFrames frames in all; message ingestion and
\* combat resolution run every tick.
MagSystems == {"recv", "shoot"}

InitMag ==
    /\ clients = {"h1"}
    /\ players = [h \in {"h1"} |-> [hp |-> FULL_HP, alive |-> TRUE, pos |-> 0]]
    /\ bots = [b \in BotIds |-> [hp |-> FULL_HP, alive |-> TRUE]]
    /\ weapons = [a \in {"h1"} \cup BotIds |-> FullWeapon]
    /\ protect = [a \in {"h1"} \cup BotIds |-> 0]
    /\ respawns = Empty /\ botRespawns = Empty
    /\ scores = [h \in {"h1"} |-> [kills |-> 0, deaths |-> 0]]
    /\ round = [phase |-> "Active",
                time_left |-> ROUND_TIME_SEC - LateTicks * DT, end_timer |-> 0]
    /\ last = Empty /\ lastFire = Empty
    /\ spawns = MapSpawns
    /\ botFsm = [b \in BotIds |-> [st |-> "Wander", timer |-> 0]]
    /\ botTarget = [b \in BotIds |-> None]
    /\ botLos = [b \in BotIds |-> 0]
    /\ botFocus = Empty
    /\ hist = [inShots |-> Empty, maxSeq |-> Empty, roundEnds |-> 0, ended |-> 0,
               resolved |-> 0, run |-> RunOf(botFsm, botFocus)]
    /\ InitCommon
    /\ OneBodyEach
    /\ NoMovement

NextMag ==
    \/ /\ sent < MaxFrames /\ inbox["h1"] = <<>>
       /\ \E m \in {x \in InputMsgs : x.fire} : ClientSend("h1", m)
    \/ recv_inputs
    \/ srv_shoot_and_respawn(MagDT)
    \/ EndTick(MagSystems)

SpecMag == InitMag /\ [][NextMag]_vars

\* ----------------------------------------------------------------- SpecBot
\* The bot: perception and its state machine, the bot's fire, and combat
\* resolution (which runs the weapon and protection timers); h1 is the only
\* human and has sent no input.  The bot starts in Combat with h1 in focus,
\* or wandering without a target, or Lost with one tick left on the timer
\* (it lost its target BOT_LOST_TO_WANDER_SEC - BotDT ago).
BotSystems == {"perceive", "shoot", "botshoot"}

InitBot ==
    /\ clients = {"h1"}
    /\ players = [h \in {"h1"} |-> [hp |-> 2, alive |-> TRUE, pos |-> 0]]
    /\ bots = [b \in BotIds |-> [hp |-> FULL_HP, alive |-> TRUE]]
    /\ weapons = [a \in {"h1"} \cup BotIds |-> FullWeapon]
    /\ protect = [a \in {"h1"} \cup BotIds |-> 0]
    /\ respawns = Empty /\ botRespawns = Empty
    /\ scores = [h \in {"h1"} |-> [kills |-> 0, deaths |-> 0]]
    /\ round = [phase |-> "Active",
                time_left |-> ROUND_TIME_SEC - LateTicks * DT, end_timer |-> 0]
    /\ last = Empty /\ lastFire = Empty
    /\ spawns = MapSpawns
    /\ \/ /\ botFsm = [b \in BotIds |-> [st |-> "Combat", timer |-> 0]]
          /\ botTarget = [b \in BotIds |-> "h1"]
          /\ botLos = [b \in BotIds |-> 0]
          /\ botFocus = [b \in BotIds |-> [tgt |-> "h1", t |-> BOT_REACT_SEC]]
       \/ /\ botFsm = [b \in BotIds |-> [st |-> "Wander", timer |-> 0]]
          /\ botTarget = [b \in BotIds |-> None]
          /\ botLos = [b \in BotIds |-> BOT_LOS_GRACE_SEC]
          /\ botFocus = [b \in BotIds |-> [tgt |-> "h1", t |-> BOT_REACT_SEC]]
       \/ /\ botFsm = [b \in BotIds |-> [st |-> "Lost", timer |-> BotDT]]
          /\ botTarget = [b \in BotIds |-> None]
          /\ botLos = [b \in BotIds |-> BOT_LOS_GRACE_SEC]
          /\ botFocus = [b \in BotIds |-> [tgt |-> "h1", t |-> BOT_REACT_SEC]]
    /\ hist = [inShots |-> Empty, maxSeq |-> Empty, roundEnds |-> 0, ended |-> 0,
               resolved |-> 0, run |-> RunOf(botFsm, botFocus)]
    /\ InitCommon
    /\ OneBodyEach
    /\ NoMovement

NextBot ==
    \/ Playing /\ bot_ai_perception_and_fsm(BotDT)
    \/ Playing /\ srv_shoot_and_respawn(BotDT)
    \/ Playing /\ bot_ai_shoot_and_respawn(BotDT)
    \/ Playing /\ EndTick(BotSystems)

SpecBot == InitBot /\ [][NextBot]_vars

\* ------------------------------------------------------------- SpecProtect
\* Spawn protection under fire: both humans and the bot are in play, the bot
\* in Combat; either h2 or the bot has just respawned (full hp, full
\* magazine, the whole protection ahead), the others are unprotected.  A
\* client sends one input frame or fire request; message ingestion and both
\* combat systems run every tick.
ProtectSystems == {"recv", "shoot", "botshoot"}

InitProtect ==
    /\ clients = Humans
    /\ \E who \in {"h2", "b1"} :
         /\ players = [h \in Humans |->
                         [hp |-> IF h = who THEN FULL_HP ELSE 36,
                          alive |-> TRUE, pos |-> IF h = "h1" THEN 0 ELSE 9]]
         /\ bots = [b \in BotIds |->
                      [hp |-> IF b = who THEN FULL_HP ELSE 36, alive |-> TRUE]]
         /\ protect = [a \in Actors |-> IF a = who THEN PROTECT_SEC ELSE 0]
         /\ botFocus = [b \in BotIds |->
                          [tgt |-> IF who = "h2" THEN "h2" ELSE "h1",
                           t |-> BOT_REACT_SEC]]
         /\ botTarget = [b \in BotIds |-> IF who = "h2" THEN "h2" ELSE "h1"]
    /\ weapons = [a \in Actors |-> FullWeapon]
    /\ respawns = Empty /\ botRespawns = Empty
    /\ scores = [h \in Humans |->
                   [kills |-> IF h = "h1" THEN 1 ELSE 0,
                    deaths |-> IF h = "h2" THEN 1 ELSE 0]]
    /\ round = [phase |-> "Active",
                time_left |-> ROUND_TIME_SEC - LateTicks * DT, end_timer |-> 0]
    /\ last = [h \in Humans |-> [seq |-> MaxSeq, fire |-> TRUE]]
    /\ lastFire = [h \in Humans |-> MaxSeq]
    /\ spawns = MapSpawns
    /\ botFsm = [b \in BotIds |-> [st |-> "Combat", timer |-> 0]]
    /\ botLos = [b \in BotIds |-> 0]
    /\ hist = [inShots |-> [h \in Humans |-> 1], maxSeq |-> [h \in Humans |-> MaxSeq],
               roundEnds |-> 0, ended |-> 0,
               resolved |-> 0, run |-> RunOf(botFsm, botFocus)]
    /\ InitCommon
    /\ OneBodyEach
    /\ NoMovement

NextProtect ==
    \/ /\ Playing /\ sent < MaxMsgs
       /\ \E id \in Humans, m \in InputMsgs \cup FireMsgs : ClientSend(id, m)
    \/ Playing /\ recv_inputs
    \/ Playing /\ srv_shoot_and_respawn(ProtDT)
    \/ Playing /\ bot_ai_shoot_and_respawn(ProtDT)
    \/ Playing /\ EndTick(ProtectSystems)

SpecProtect == InitProtect /\ [][NextProtect]_vars

\* ------------------------------------------------------------- SpecAim
\* Target choice of the two human fire paths on one axis.  Lengths are in
\* LenUnit-ths of a metre; the ray runs along the axis at the mid-height of
\* the hit cylinders, so ray_cylinder_hit's height test passes.
FracLess(a, b) == a.num * b.den < b.num * a.den
NoHit == Frac(0, 0)

\* ray_cylinder_hit: the roots of the side-wall quadratic are the centre's
\* distance along the ray minus and plus the radius; the first root within
\* [0, range] is the hit distance.
ray_cylinder_hit(origin, dir, center) ==
    LET rel == dir * (center.num - origin * center.den) * LenUnit
        t0 == Frac(rel - HIT_RADIUS * center.den, center.den)
        t1 == Frac(rel + HIT_RADIUS * center.den, center.den)
        ok(t) == t.num >= 0 /\ t.num <= AIM_RANGE * t.den
    IN IF ok(t0) THEN t0 ELSE IF ok(t1) THEN t1 ELSE NoHit

\* The other living actors a shot of id can damage.
Candidates(id) ==
    {a \in DOMAIN players : a # id /\ players[a].alive}
        \cup {b \in DOMAIN bots : b # id /\ bots[b].alive}

\* The candidates with the smallest hit distance under dist (NoHit: no hit).
Nearest(cands, dist(_)) ==
    {a \in cands : /\ dist(a) # NoHit
                   /\ \A b \in cands : dist(b) # NoHit => ~FracLess(dist(b), dist(a))}

\* The explicit path: the nearest ray-cylinder hit against the positions
\* rewound to sim - LAG_COMP_SEC, kept when the ray cast in the current world
\* (hit_ent: its first hit is the candidate's collider) confirms it.
ExplicitTarget(id, origin, dir, hit_ent) ==
    LET t(a) == LET c == rewind_pos(posHist, a, simTime - LAG_COMP_SEC)
                IN IF c = NoPos THEN NoHit ELSE ray_cylinder_hit(origin, dir, c)
        best == Nearest(Candidates(id), t)
    IN IF best # {} /\ hit_ent THEN best ELSE {}

\* The position the combat system's snapshot holds for an actor: a human's
\* current position, a bot's position as the sampler last stored it.
SnapPos(a) ==
    IF a \in DOMAIN players THEN players[a].pos
    ELSE posHist[a][Len(posHist[a])].p

\* The input path: the candidate whose current position lies within
\* AIM_SLACK of the ray, nearest along the ray; the ray starts at the
\* shooter's current position.
InputTarget(id, dir) ==
    LET origin == players[id].pos
        along(a) == Max(0, Min(dir * (SnapPos(a) - origin) * LenUnit, AIM_RANGE))
        off(a) == Abs((SnapPos(a) - origin) * LenUnit - dir * along(a))
        t(a) == IF off(a) <= AIM_SLACK THEN Frac(along(a), 1) ELSE NoHit
    IN Nearest({a \in Candidates(id) :
                  a \in DOMAIN players \/ Get(posHist, a, <<>>) # <<>>}, t)

\* An aimed shot: who fired on which path, from where and which way, and the
\* actor chosen to take the damage (None: nobody).
AimedShot(by, path, target, origin, dir) ==
    [by |-> by, path |-> path, target |-> target, origin |-> origin, dir |-> dir]

\* The combat system aims one shot of shooter id: an explicit request with a
\* client-given origin and direction, or a fire flag with a view direction.
Aim(id) ==
    /\ "aim" \notin ran
    /\ ran' = ran \cup {"aim"}
    /\ id \in DOMAIN players /\ players[id].alive
    /\ \E dir \in {-1, 1} :
         \/ \E origin \in Positions, hit_ent \in BOOLEAN :
              LET best == ExplicitTarget(id, origin, dir, hit_ent)
              IN \/ best = {} /\ shots' = <<AimedShot(id, "explicit", None, origin, dir)>>
                 \/ \E a \in best : shots' = <<AimedShot(id, "explicit", a, origin, dir)>>
         \/ LET best == InputTarget(id, dir)
            IN \/ best = {} /\ shots' = <<AimedShot(id, "input", None, players[id].pos, dir)>>
               \/ \E a \in best :
                    shots' = <<AimedShot(id, "input", a, players[id].pos, dir)>>
    /\ events' = <<>>
    /\ UNCHANGED lagVars
    /\ UNCHANGED entVars
    /\ UNCHANGED jumpSt
    /\ UNCHANGED <<clients, inbox, srvEvents, combatVars, round, last, fires,
                   spawns, botVars, scaffoldVars, tick, sent, hist>>

AimSystems == {"kccpost", "history", "aim"}

\* Both humans alive in a running round, the bot dead and waiting to
\* respawn; the histories are empty or hold three samples of each actor.
InitAim ==
    /\ clients = Humans
    /\ players = [h \in Humans |-> [hp |-> FULL_HP, alive |-> TRUE,
                                    pos |-> IF h = "h1" THEN 5 ELSE 9]]
    /\ bots = [b \in BotIds |-> [hp |-> 0, alive |-> FALSE]]
    /\ weapons = [a \in Actors |-> FullWeapon]
    /\ protect = [a \in Actors |-> 0]
    /\ respawns = Empty
    /\ botRespawns = [b \in BotIds |-> RESPAWN_DELAY]
    /\ scores = [h \in Humans |-> [kills |-> IF h = "h1" THEN 1 ELSE 0, deaths |-> 0]]
    /\ round = [phase |-> "Active",
                time_left |-> ROUND_TIME_SEC - LateTicks * DT, end_timer |-> 0]
    /\ last = Empty /\ lastFire = Empty
    /\ spawns = MapSpawns
    /\ botFsm = [b \in BotIds |-> [st |-> "Combat", timer |-> 0]]
    /\ botTarget = [b \in BotIds |-> "h1"]
    /\ botLos = [b \in BotIds |-> 0]
    /\ botFocus = [b \in BotIds |-> [tgt |-> "h1", t |-> BOT_REACT_SEC]]
    /\ hist = [inShots |-> Empty, maxSeq |-> Empty, roundEnds |-> 0, ended |-> 0,
               resolved |-> 0, run |-> RunOf(botFsm, botFocus)]
    /\ inbox = [h \in Humans |-> <<>>]
    /\ srvEvents = <<>> /\ fires = <<>> /\ pending = <<>>
    /\ scaffolds = [by_id |-> Empty, per_owner |-> Empty] /\ nextSid = 1
    /\ events = <<>> /\ shots = <<>>
    /\ ran = {} /\ tick = 0 /\ sent = 0
    /\ rewound = NoRewind
    /\ \/ posHist = Empty /\ simTime = 0
       \/ /\ simTime = 3 * HistDT
          /\ posHist = [a \in Actors |->
                          <<[t |-> HistDT, p |-> 0], [t |-> 2 * HistDT, p |-> 9],
                            [t |-> 3 * HistDT, p |-> IF a = "h1" THEN 5 ELSE 9]>>]
    /\ OneBodyEach
    /\ NoMovement

NextAim ==
    \/ Playing /\ tick < AimTicks /\ srv_kcc_post
    \/ Playing /\ tick < AimTicks /\ update_position_history(HistDT)
    \/ Playing /\ tick < AimTicks /\ \E id \in {"h1"} : Aim(id)
    \/ Playing /\ tick < AimTicks /\ EndTick(AimSystems)

SpecAim == InitAim /\ [][NextAim]_vars

\* ------------------------------------------------------------ SpecSpawn
\* Respawn placement: h1 is dead with one or two ticks left on its respawn
\* timer, h2 and the bot are alive and move; the spawn points are the map's,
\* or none is registered.  Nobody sends input, so no shot is fired.  A bot
\* stands where the sampler last recorded it.
SpawnSystems == {"kccpost", "history", "shoot"}

InitSpawn ==
    /\ clients = Humans
    /\ players = [h \in Humans |->
                    [hp |-> IF h = "h1" THEN 0 ELSE FULL_HP,
                     alive |-> h # "h1", pos |-> 5]]
    /\ bots = [b \in BotIds |-> [hp |-> FULL_HP, alive |-> TRUE]]
    /\ weapons = [a \in Actors |-> FullWeapon]
    /\ protect = [a \in Actors |-> 0]
    /\ \E n \in 1..2 : respawns = [h \in {"h1"} |-> n * HistDT]
    /\ botRespawns = Empty
    /\ scores = [h \in Humans |-> [kills |-> IF h = "h2" THEN 1 ELSE 0,
                                   deaths |-> IF h = "h1" THEN 1 ELSE 0]]
    /\ round = [phase |-> "Active",
                time_left |-> ROUND_TIME_SEC - LateTicks * DT, end_timer |-> 0]
    /\ last = Empty /\ lastFire = Empty
    /\ spawns \in {<<>>, MapSpawns}
    /\ botFsm = [b \in BotIds |-> [st |-> "Wander", timer |-> 0]]
    /\ botTarget = [b \in BotIds |-> None]
    /\ botLos = [b \in BotIds |-> BOT_LOS_GRACE_SEC]
    /\ botFocus = Empty
    /\ hist = [inShots |-> Empty, maxSeq |-> Empty, roundEnds |-> 0, ended |-> 0,
               resolved |-> 0, run |-> RunOf(botFsm, botFocus)]
    /\ inbox = [h \in Humans |-> <<>>]
    /\ srvEvents = <<>> /\ fires = <<>> /\ pending = <<>>
    /\ scaffolds = [by_id |-> Empty, per_owner |-> Empty] /\ nextSid = 1
    /\ events = <<>> /\ shots = <<>>
    /\ ran = {} /\ tick = 0 /\ sent = 0
    /\ rewound = NoRewind
    /\ simTime = 3 * HistDT
    /\ posHist = [a \in Actors |->
                    <<[t |-> HistDT, p |-> 0], [t |-> 2 * HistDT, p |-> 9],
                      [t |-> 3 * HistDT, p |-> 5]>>]
    /\ OneBodyEach
    /\ NoMovement

NextSpawn ==
    \/ Playing /\ tick < AimTicks /\ srv_kcc_post
    \/ Playing /\ tick < AimTicks /\ update_position_history(HistDT)
    \/ Playing /\ tick < AimTicks /\ srv_shoot_and_respawn(HistDT)
    \/ Playing /\ tick < AimTicks /\ EndTick(SpawnSystems)

SpecSpawn == InitSpawn /\ [][NextSpawn]_vars

\* -------------------------------------------------------- SpecScaffoldLive
\* Scaffold lifetimes to their end: the scaffold systems run tick after tick
\* (the fixed schedule never stops) in a round that is Active or Ending,
\* while the clients send a bounded number of placement requests.
InitScaffoldLive ==
    /\ InitLate \/ InitEnding
    /\ InitScaffolds
    /\ NoHistory
    /\ inbox = [h \in Humans |-> <<>>]
    /\ srvEvents = <<>> /\ fires = <<>> /\ pending = <<>>
    /\ events = <<>> /\ shots = <<>>
    /\ ran = {} /\ tick = 0 /\ sent = 0
    /\ OneBodyEach
    /\ NoMovement

ScaffoldSchedule ==
    \/ recv_inputs
    \/ process_scaffold_requests
    \/ scaffold_tick_and_cleanup_srv(DT)
    \/ EndTick(ScaffoldSystems)

NextScaffoldLive ==
    \/ /\ sent < LivePlace
       /\ \E id \in Humans, m \in PlaceMsgs : ClientSend(id, m)
    \/ recv_inputs
    \/ process_scaffold_requests
    \/ scaffold_tick_and_cleanup_srv(DT)
    \/ EndTick(ScaffoldSystems)

SpecScaffoldLive ==
    InitScaffoldLive /\ [][NextScaffoldLive]_vars /\ WF_vars(ScaffoldSchedule)

\* -------------------------------------------------------------- SpecJump
\* Jumping: h1 sends input frames with or without the jump flag at any time;
\* message ingestion, the pre- and post-physics movement systems and the
\* round state machine run every tick, JumpTicks ticks long.  The physics
\* output reports h1 grounded or not as it pleases.  The round is Ending and
\* resets after ResetAfter ticks, or stays Ending throughout.
JumpSystems == {"recv", "kccmove", "kccpost", "round"}

InitJump ==
    /\ clients = Humans
    /\ players = [h \in Humans |-> [hp |-> FULL_HP, alive |-> TRUE,
                                    pos |-> IF h = "h1" THEN 0 ELSE 9]]
    /\ bots = [b \in BotIds |-> [hp |-> FULL_HP, alive |-> TRUE]]
    /\ weapons = [a \in Actors |-> FullWeapon]
    /\ protect = [a \in Actors |-> 0]
    /\ respawns = Empty /\ botRespawns = Empty
    /\ scores = [h \in Humans |-> [kills |-> IF h = "h1" THEN WIN_KILLS ELSE 0,
                                   deaths |-> IF h = "h2" THEN WIN_KILLS ELSE 0]]
    /\ \E left \in {ResetAfter * JumpDT, ROUND_END_DELAY_SEC} :
         round = [phase |-> "Ending", time_left |-> ROUND_TIME_SEC - LateTicks * DT,
                  end_timer |-> left]
    /\ last = [h \in Humans |-> [seq |-> 1, fire |-> FALSE]]
    /\ lastFire = Empty
    /\ spawns = MapSpawns
    /\ botFsm = [b \in BotIds |-> [st |-> "Wander", timer |-> 0]]
    /\ botTarget = [b \in BotIds |-> None]
    /\ botLos = [b \in BotIds |-> BOT_LOS_GRACE_SEC]
    /\ botFocus = Empty
    /\ hist = [inShots |-> Empty, maxSeq |-> Empty, roundEnds |-> 1, ended |-> 0,
               resolved |-> 0, run |-> RunOf(botFsm, botFocus)]
    /\ InitCommon
    /\ OneBodyEach
    /\ jumpSt = [h \in {"h1"} |-> JumpDefault]

JumpPlaying ==
    IF round.phase = "Ending"
    THEN \/ round.end_timer <= ResetAfter * JumpDT
         \/ round.end_timer > ROUND_END_DELAY_SEC - JumpTicks * JumpDT
    ELSE round.time_left > ROUND_TIME_SEC - JumpTicks * JumpDT

NextJump ==
    \/ /\ JumpPlaying /\ sent < MaxJumps
       /\ \E m \in JumpMsgs : ClientSend("h1", m)
    \/ JumpPlaying /\ recv_inputs
    \/ JumpPlaying /\ srv_kcc_move(JumpDT)
    \/ JumpPlaying /\ srv_kcc_post
    \/ JumpPlaying /\ round_update(JumpDT)
    \/ JumpPlaying /\ EndTick(JumpSystems)

SpecJump == InitJump /\ [][NextJump]_vars

\* ------------------------------------------------------------- SpecCross
\* Crossfire: both humans hold the trigger with a frame the combat step has
\* not seen yet, the bot is in Combat with h1 in focus, and everybody is one
\* hit from death with a full magazine.  The humans send further frames;
\* message ingestion and both combat systems run every HistDT, so that a
\* killed actor stays dead into the next tick; AimTicks ticks are played.
CrossSystems == {"recv", "shoot", "botshoot"}

InitCross ==
    /\ clients = Humans
    /\ players = [h \in Humans |-> [hp |-> 30, alive |-> TRUE,
                                    pos |-> IF h = "h1" THEN 0 ELSE 5]]
    /\ bots = [b \in BotIds |-> [hp |-> 30, alive |-> TRUE]]
    /\ weapons = [a \in Actors |-> FullWeapon]
    /\ protect = [a \in Actors |-> 0]
    /\ respawns = Empty /\ botRespawns = Empty
    /\ scores = [h \in Humans |-> [kills |-> 0, deaths |-> 0]]
    /\ round = [phase |-> "Active",
                time_left |-> ROUND_TIME_SEC - LateTicks * DT, end_timer |-> 0]
    /\ last = [h \in Humans |-> [seq |-> 1, fire |-> TRUE]]
    /\ lastFire = Empty
    /\ spawns = MapSpawns
    /\ botFsm = [b \in BotIds |-> [st |-> "Combat", timer |-> 0]]
    /\ botTarget = [b \in BotIds |-> "h1"]
    /\ botLos = [b \in BotIds |-> 0]
    /\ botFocus = [b \in BotIds |-> [tgt |-> "h1", t |-> BOT_REACT_SEC]]
    /\ hist = [inShots |-> Empty, maxSeq |-> [h \in Humans |-> 1],
               roundEnds |-> 0, ended |-> 0,
               resolved |-> 0, run |-> RunOf(botFsm, botFocus)]
    /\ InitCommon
    /\ OneBodyEach
    /\ NoMovement

NextCross ==
    \/ /\ tick < AimTicks /\ sent < MaxFires
       /\ \E id \in Humans, m \in {x \in InputMsgs : x.fire /\ x.seq = MaxSeq} :
            ClientSend(id, m)
    \/ tick < AimTicks /\ recv_inputs
    \/ tick < AimTicks /\ srv_shoot_and_respawn(HistDT)
    \/ tick < AimTicks /\ bot_ai_shoot_and_respawn(HistDT)
    \/ tick < AimTicks /\ EndTick(CrossSystems)

SpecCross == InitCross /\ [][NextCross]_vars

\* --------------------------------------------------------------- SpecWin
\* The last kill of a round: both humans are one kill from the threshold and
\* one hit from death, each holding the trigger with a frame the combat step
\* has not seen yet; they send further fire frames.  Combat and the round
\* update run once per tick in either order, JumpDT apart (less than the fire
\* cooldown), for MaxTicks ticks.
WinSystems == {"recv", "shoot", "round"}

InitWin ==
    /\ clients = Humans
    /\ players = [h \in Humans |-> [hp |-> 30, alive |-> TRUE,
                                    pos |-> IF h = "h1" THEN 0 ELSE 5]]
    /\ bots = [b \in BotIds |-> [hp |-> FULL_HP, alive |-> TRUE]]
    /\ weapons = [a \in Actors |-> FullWeapon]
    /\ protect = [a \in Actors |-> 0]
    /\ respawns = Empty /\ botRespawns = Empty
    /\ scores = [h \in Humans |-> [kills |-> WIN_KILLS - 1, deaths |-> 0]]
    /\ round = [phase |-> "Active",
                time_left |-> ROUND_TIME_SEC - LateTicks * DT, end_timer |-> 0]
    /\ last = [h \in Humans |-> [seq |-> 1, fire |-> TRUE]]
    /\ lastFire = Empty
    /\ spawns = MapSpawns
    /\ botFsm = [b \in BotIds |-> [st |-> "Wander", timer |-> 0]]
    /\ botTarget = [b \in BotIds |-> None]
    /\ botLos = [b \in BotIds |-> BOT_LOS_GRACE_SEC]
    /\ botFocus = Empty
    /\ hist = [inShots |-> Empty, maxSeq |-> [h \in Humans |-> 1],
               roundEnds |-> 0, ended |-> 0,
               resolved |-> 0, run |-> RunOf(botFsm, botFocus)]
    /\ InitCommon
    /\ OneBodyEach
    /\ NoMovement

NextWin ==
    \/ /\ Playing /\ sent < MaxFires
       /\ \E id \in Humans, m \in {x \in InputMsgs : x.fire /\ x.seq = MaxSeq} :
            ClientSend(id, m)
    \/ Playing /\ recv_inputs
    \/ Playing /\ srv_shoot_and_respawn(JumpDT)
    \/ Playing /\ round_update(JumpDT)
    \/ Playing /\ EndTick(WinSystems)

SpecWin == InitWin /\ [][NextWin]_vars

\* --------------------------------------------------------------- SpecFire
\* Explicit fire requests: clients send up to MaxFires fire requests, several
\* of them possibly within one tick; message ingestion, the human combat
\* system and the round state machine run every tick, late in a round or
\* during the end delay.
FireSystems == {"recv", "shoot", "round"}

NextFire ==
    \/ /\ Playing /\ sent < MaxFires
       /\ \E id \in Humans, m \in FireMsgs : ClientSend(id, m)
    \/ Playing /\ recv_inputs
    \/ Playing /\ srv_shoot_and_respawn(DT)
    \/ Playing /\ round_update(DT)
    \/ Playing /\ EndTick(FireSystems)

SpecFire == Init /\ [][NextFire]_vars

\* --------------------------------------------------------------- SpecConn
\* Joining and leaving: clients connect and disconnect at the transport, the
\* connection-event handler, the reconciliation pass and the bot maintainer
\* run between ticks in any order (all three are Update systems registered
\* without an order), and both combat systems run every tick.  The server has
\* either just started or is late in a round; h1 is the client that joins
\* and leaves.
ConnSystems == {"shoot", "botshoot"}

InitConn ==
    /\ InitCommon
    /\ InitFresh \/ InitLate
    /\ OneBodyEach
    /\ NoMovement

NextConn ==
    \/ /\ Playing /\ Len(srvEvents) < MaxEvents
       /\ \E id \in {"h1"} : Get(bodies, id, 0) < MaxBodies /\ Connect(id)
    \/ /\ Playing /\ Len(srvEvents) < MaxEvents
       /\ \E id \in {"h1"} : Disconnect(id)
    \/ Playing /\ accept_clients
    \/ Playing /\ sync_players_with_connections
    \/ Playing /\ ensure_bots
    \/ Playing /\ srv_shoot_and_respawn(DT)
    \/ Playing /\ bot_ai_shoot_and_respawn(DT)
    \/ Playing /\ EndTick(ConnSystems)

SpecConn == InitConn /\ [][NextConn]_vars


\* ================================================================ properties
\* C1: at every tick boundary every human and bot has 0 <= hp <= 100 and every
\* weapon has 0 <= ammo <= MAG_SIZE, however the actors connected, shot,
\* reloaded, respawned or were reset by the round.
C1_HpAmmoInRange ==
    ran = {} =>
      /\ \A id \in DOMAIN players : players[id].hp \in 0..FULL_HP
      /\ \A id \in DOMAIN bots : bots[id].hp \in 0..FULL_HP
      /\ \A id \in DOMAIN weapons : weapons[id].ammo \in 0..MAG_SIZE

\* A tick boundary after a shot took a human's last hit points and a magazine
\* was emptied.
C1_Witness ==
    /\ ran = {}
    /\ tick >= 1
    /\ \E id \in DOMAIN players : players[id].hp = 0 /\ ~players[id].alive
    /\ \E id \in DOMAIN weapons : weapons[id].ammo = 0

\* C2: a shot whose ray meets geometry other than the target's own collider
\* before the target (on any of the three shot paths, at a human or a bot)
\* emits no Hit event: no hit is credited to the shooter in the step that
\* resolved the blocked shot.
C2_BlockedShotNeverHits ==
    \A i \in DOMAIN shots :
      shots[i].ray = "blocker" =>
        ~\E j \in DOMAIN events :
            events[j].t = "Hit" /\ events[j].by = shots[i].by

\* C3: a fire-flag frame is acted on at most once: between two changes of an
\* actor's stored sequence number at most one input-flag shot is taken.
C3_FrameShotAtMostOnce ==
    \A id \in DOMAIN hist.inShots : hist.inShots[id] <= 1

\* Combat resolution ran over a fire-flag frame it had already acted on, with
\* the shooter alive, unprotected and the weapon ready, and took no shot.
C3_Witness ==
    /\ "shoot" \in ran
    /\ round.phase = "Active"
    /\ \E id \in DOMAIN last \cap DOMAIN players :
         /\ last[id].fire
         /\ Get(hist.inShots, id, 0) = 1
         /\ players[id].alive
         /\ Get(protect, id, 0) = 0
         /\ weapons[id].ammo > 0 /\ weapons[id].reload = 0
         /\ weapons[id].cooldown = 0
         /\ ~\E j \in DOMAIN events : events[j].t = "Fire" /\ events[j].id = id

\* C4: a fire-flag frame whose sequence number is lower than one already
\* processed for the actor never triggers a shot: every input-flag shot is
\* taken for a frame whose number is the largest processed so far.
C4_OldFrameNeverShoots ==
    \A i \in DOMAIN shots :
      shots[i].path = "input" =>
        last[shots[i].by].seq >= Get(hist.maxSeq, shots[i].by, 0)

\* Weapon gate of a shot: ready, not reloading, rounds left.
CanFire(w) == w.cooldown <= 0 /\ w.reload <= 0 /\ w.ammo > 0

\* C5: a Fire event is emitted for an actor only in a step where the actor
\* is alive, unprotected and its weapon passes the gate (before or after the
\* step's own weapon-timer tick).
C5_FireOnlyWhenAllowed ==
    [][\A j \in DOMAIN events' :
         events'[j].t = "Fire" =>
           LET id == events'[j].id
           IN /\ id \in DOMAIN weapons
              /\ IF id \in DOMAIN players THEN players[id].alive
                 ELSE id \in DOMAIN bots /\ bots[id].alive
              /\ Get(protect, id, 0) <= 0
              /\ CanFire(weapons[id]) \/ CanFire(TickWeapon(weapons[id], DT))]_vars

\* C6: a weapon that is reloading is empty; a reload that runs out refills
\* the magazine to MAG_SIZE in the same step.
C6_ReloadingIsEmpty ==
    [][/\ \A id \in DOMAIN weapons : weapons[id].reload > 0 => weapons[id].ammo = 0
       /\ \A id \in DOMAIN weapons' :
            /\ weapons'[id].reload > 0 => weapons'[id].ammo = 0
            /\ (id \in DOMAIN weapons /\ weapons[id].reload > 0
                                       /\ weapons'[id].reload <= 0)
                 => weapons'[id].ammo = MAG_SIZE]_vars

\* A reload ran out in the latest step: the refilled magazine was announced
\* for an actor that did not respawn in that step.
C6_Witness ==
    \E j \in DOMAIN events :
      /\ events[j] = EvAmmo(events[j].id, MAG_SIZE, FALSE)
      /\ ~\E k \in DOMAIN events : events[k] = EvSpawn(events[j].id)
      /\ weapons[events[j].id] = FullWeapon

\* C7: while the phase is Active every round-update step strictly decreases
\* time_left; a RoundEnd event is emitted only by a round-update step of an
\* Active round in which some score has kills >= WIN_KILLS or time_left has
\* reached zero; a round emits RoundEnd once (none while Active, one when
\* Ending).
C7_RoundClockAndEnd ==
    [][/\ ("round" \in ran' /\ "round" \notin ran /\ round.phase = "Active")
            => round'.time_left < round.time_left
       /\ (\E j \in DOMAIN events' : events'[j].t = "RoundEnd")
            => /\ "round" \in ran' /\ "round" \notin ran
               /\ round.phase = "Active"
               /\ \/ \E id \in DOMAIN scores : scores[id].kills >= WIN_KILLS
                  \/ round'.time_left <= 0
               /\ Cardinality({j \in DOMAIN events' : events'[j].t = "RoundEnd"}) = 1
       /\ hist'.roundEnds = IF round'.phase = "Ending" THEN 1 ELSE 0]_vars

\* A round was ended by a tenth kill with time left on the clock.
C7_Witness ==
    /\ \E j \in DOMAIN events : events[j].t = "RoundEnd" /\ events[j].id # None
    /\ round.phase = "Ending"
    /\ round.time_left > 0
    /\ hist.roundEnds = 1

\* C9: when the round passes from Ending to Active every actor's weapon is
\* full, with no reload and no cooldown pending.
C9_WeaponsRefilledAtRoundStart ==
    [][(round.phase = "Ending" /\ round'.phase = "Active")
         => \A id \in DOMAIN weapons' : weapons'[id] = FullWeapon]_vars

\* Positions the reset can place a human at.
SpawnPositions == IF spawns = <<>> THEN {DefaultSpawn} ELSE Range(spawns)

\* C8: an Ending round returns to Active, in the round-update step that
\* brings the time spent in Ending to ROUND_END_DELAY_SEC and in no earlier
\* one; after that step every human is alive with hp 100 at a spawn position,
\* no human respawn timer is pending, every score is (0, 0) and time_left is
\* ROUND_TIME_SEC.
C8_EndingReturnsToActive ==
    /\ [][(round.phase = "Ending" /\ round'.phase = "Active")
            => /\ hist.ended < ROUND_END_DELAY_SEC
               /\ hist'.ended >= ROUND_END_DELAY_SEC
               /\ \A id \in DOMAIN players' :
                    /\ players'[id].alive
                    /\ players'[id].hp = FULL_HP
                    /\ players'[id].pos \in SpawnPositions
               /\ respawns' = Empty
               /\ \A id \in DOMAIN scores' : scores'[id] = [kills |-> 0, deaths |-> 0]
               /\ round'.time_left = ROUND_TIME_SEC]_vars
    /\ (round.phase = "Ending") ~> (round.phase = "Active")

\* The reset step has just run, after the end delay, over a human that was
\* dead with a respawn pending when the round ended.
C8_Witness ==
    /\ "round" \in ran
    /\ round.phase = "Active"
    /\ round.time_left = ROUND_TIME_SEC
    /\ hist.ended >= ROUND_END_DELAY_SEC
    /\ \E j \in DOMAIN events : events[j] = EvRoundStart
    /\ \E j \in DOMAIN events : events[j] = EvSpawn("h1")
    /\ players["h1"].alive
    /\ respawns = Empty
    /\ Cardinality(DOMAIN players) = 2

\* C10: no owner has more than SCAFFOLD_PER_PLAYER_LIMIT live scaffolds, in
\* the scaffold table and in the owner's FIFO list alike, and the two hold
\* the same scaffold ids (each once).
C10_ScaffoldLimit ==
    /\ \A sid \in DOMAIN scaffolds.by_id :
         scaffolds.by_id[sid].owner \in DOMAIN scaffolds.per_owner
    /\ \A o \in DOMAIN scaffolds.per_owner :
         LET vec == scaffolds.per_owner[o]
             owned == {sid \in DOMAIN scaffolds.by_id : scaffolds.by_id[sid].owner = o}
         IN /\ Len(vec) <= SCAFFOLD_PER_PLAYER_LIMIT
            /\ Cardinality(owned) <= SCAFFOLD_PER_PLAYER_LIMIT
            /\ Range(vec) = owned
            /\ Cardinality(owned) = Len(vec)

\* A placement at the limit has just evicted an owner's oldest scaffold: the
\* owner is back at the limit and the first scaffold placed is gone.
C10_Witness ==
    /\ "place" \in ran
    /\ \E j, k \in DOMAIN events :
         /\ events[j].t = "ScaffoldDespawn"
         /\ events[k].t = "ScaffoldSpawn"
         /\ Len(scaffolds.per_owner[events[k].id]) = SCAFFOLD_PER_PLAYER_LIMIT
         /\ Head(scaffolds.per_owner[events[k].id]) > 1

\* Scaffold ids announced as spawned for owner o, and ids announced as
\* despawned, in a sequence of events.
SpawnedFor(ev, o) ==
    {ev[j].n : j \in {i \in DOMAIN ev : ev[i].t = "ScaffoldSpawn" /\ ev[i].id = o}}
Despawned(ev) == {ev[j].n : j \in {i \in DOMAIN ev : ev[i].t = "ScaffoldDespawn"}}

\* The scaffolds owner o loses in a placement step: of the scaffolds it held
\* and the ones placed for it (ids grow in placement order), the earliest
\* placed beyond the last SCAFFOLD_PER_PLAYER_LIMIT.
EvictedOf(held, placed) ==
    LET all == held \cup placed
        k == Cardinality(all) - Min(Cardinality(all), SCAFFOLD_PER_PLAYER_LIMIT)
    IN {s \in all : Cardinality({t \in all : t < s}) < k}

\* C11: in a placement step every request of a registered owner places one
\* scaffold; an owner at the limit loses exactly one scaffold per placement,
\* its earliest placed live one (none has less lifetime left), a
\* ScaffoldDespawn is emitted once for each evicted scaffold and for nothing
\* else, and nothing of any other owner changes; below the limit nothing is
\* evicted.
C11_EvictsOldest ==
    [][("place" \in ran' /\ "place" \notin ran) =>
         LET owners == DOMAIN scaffolds.per_owner \cup DOMAIN scaffolds'.per_owner
                       \cup Humans
             held(o) == Range(Get(scaffolds.per_owner, o, <<>>))
             placed(o) == SpawnedFor(events', o)
             gone(o) == EvictedOf(held(o), placed(o))
             kept(o) == (held(o) \cup placed(o)) \ gone(o)
         IN /\ \A o \in owners :
                 /\ Cardinality(placed(o)) =
                      Cardinality({i \in DOMAIN pending :
                                     pending[i] = o /\ o \in DOMAIN players})
                 /\ placed(o) \cap DOMAIN scaffolds.by_id = {}
                 /\ Range(Get(scaffolds'.per_owner, o, <<>>)) = kept(o)
                 /\ Len(Get(scaffolds'.per_owner, o, <<>>)) = Cardinality(kept(o))
                 /\ Cardinality(held(o) \cup placed(o)) <= SCAFFOLD_PER_PLAYER_LIMIT
                      => gone(o) = {}
                 /\ \A e \in gone(o) \cap held(o), x \in held(o) \ gone(o) :
                      scaffolds.by_id[e].life <= scaffolds.by_id[x].life
            /\ Despawned(events') = UNION {gone(o) : o \in owners}
            /\ Cardinality({i \in DOMAIN events' : events'[i].t = "ScaffoldDespawn"})
                 = Cardinality(Despawned(events'))
            /\ DOMAIN scaffolds'.by_id = UNION {kept(o) : o \in owners}]_vars

\* A placement step has just evicted one scaffold of an owner at the limit
\* who placed once, while another owner's scaffold stayed in place.
C11_Witness ==
    /\ "place" \in ran
    /\ Cardinality(Despawned(events)) = 1
    /\ \E o \in DOMAIN scaffolds.per_owner :
         /\ Cardinality(SpawnedFor(events, o)) = 1
         /\ Len(scaffolds.per_owner[o]) = SCAFFOLD_PER_PLAYER_LIMIT
         /\ \E q \in DOMAIN scaffolds.per_owner \ {o} :
              /\ scaffolds.per_owner[q] # <<>>
              /\ SpawnedFor(events, q) = {}

\* C12: the position rewind_pos returned for a history h and a time t is the
\* oldest sample's position when t is at or before the oldest timestamp, the
\* newest sample's when t is at or after the newest, otherwise the point on
\* the line between the two adjacent samples around t; at a stored
\* timestamp it is exactly that sample's position.  (Positions are exact
\* fractions: the rounding of f32 arithmetic is left out.)
C12_RewindInterpolates ==
    rewound.asked =>
      LET h == rewound.h
          t == rewound.t
          r == rewound.r
          n == Len(h)
      IN IF h = <<>> THEN r = NoPos
         ELSE /\ r.den > 0
              /\ t <= h[1].t => FracEq(r, Frac(h[1].p, 1))
              /\ t >= h[n].t => FracEq(r, Frac(h[n].p, 1))
              /\ \A i \in 1..(n - 1) :
                   (h[i].t <= t /\ t <= h[i + 1].t) =>
                     (r.num - h[i].p * r.den) * (h[i + 1].t - h[i].t)
                       = (h[i + 1].p - h[i].p) * (t - h[i].t) * r.den
              /\ \A i \in 1..n : h[i].t = t => FracEq(r, Frac(h[i].p, 1))

\* A rewind strictly between two samples at different positions, neither the
\* oldest pair nor at a stored timestamp, in a history that has been pruned.
C12_Witness ==
    /\ rewound.asked
    /\ Len(rewound.h) >= 3
    /\ rewound.h[1].t > HistDT
    /\ \E i \in 2..(Len(rewound.h) - 1) :
         /\ rewound.h[i].t < rewound.t /\ rewound.t < rewound.h[i + 1].t
         /\ rewound.h[i].p # rewound.h[i + 1].p
         /\ ~FracEq(rewound.r, Frac(rewound.h[i].p, 1))
         /\ ~FracEq(rewound.r, Frac(rewound.h[i + 1].p, 1))

\* Damage of a shot on each path.
DamageOf(path) == IF path = "bot" THEN BOT_DMG ELSE SHOT_DMG

\* Current hit points of a human or a bot in the tables p and b.
HpOf(p, b, id) == IF id \in DOMAIN p THEN p[id].hp ELSE b[id].hp

\* C13: a shot (taken by a living, unprotected shooter with a ready weapon)
\* whose ray meets the rewound cylinder of an alive, unprotected target, with
\* no other collider before the target in the current world, is accepted: in
\* the step that resolves it a Hit event is emitted for the target by the
\* shooter and the hp it announces is the target's hp less the damage of the
\* shot (zero at least).  Steps with a second shot at the same target are
\* left out.
C13_UnobstructedShotHits ==
    [][\A i \in DOMAIN shots' :
         LET s == shots'[i]
             tgt == s.target
         IN (/\ tgt # None
             /\ s.ray # "blocker"
             /\ Get(protect, tgt, 0) <= 0
             /\ Cardinality({k \in DOMAIN shots' : shots'[k].target = tgt}) = 1)
            => \E j \in DOMAIN events' :
                 /\ events'[j].t = "Hit"
                 /\ events'[j].id = tgt
                 /\ events'[j].by = s.by
                 /\ events'[j].n = SatSub(HpOf(players, bots, tgt),
                                          DamageOf(s.path))]_vars

\* A step of combat resolution in an Active round.
ShootStep == "shoot" \in ran' /\ "shoot" \notin ran /\ round.phase = "Active"

\* Human id comes to combat resolution with a fire intent it may act on: a
\* fire-flag frame with a new sequence number (or a pending explicit fire),
\* alive and unprotected.
FireIntent(id) ==
    /\ id \in DOMAIN last /\ id \in DOMAIN players
    /\ players[id].alive
    /\ Get(protect, id, 0) <= 0
    /\ \/ last[id].fire /\ last[id].seq # Get(lastFire, id, 0)
       \/ \E i \in DOMAIN fires : fires[i].id = id /\ fires[i].ok

\* C14: the magazine cycle of a human in an Active round.  Every accepted
\* shot takes exactly one round and announces the rounds left, so twelve
\* shots empty a full magazine of 12; a fire intent with an empty magazine
\* and an idle weapon fires nothing, starts a reload of RELOAD_TIME and
\* emits Ammo{0, reloading}; a running reload counts down with every tick
\* and, in the tick it runs out, the magazine is 12 again and
\* Ammo{12, not reloading} is emitted.
C14_MagazineCycle ==
    [][\A id \in DOMAIN players \cap DOMAIN weapons \cap DOMAIN weapons' :
         LET w == weapons[id]
             w1 == weapons'[id]
             fired == \E j \in DOMAIN events' : events'[j] = EvFire(id)
             respawned == \E j \in DOMAIN events' : events'[j] = EvSpawn(id)
             has(e) == \E j \in DOMAIN events' : events'[j] = e
             loaded == IF w.reload > 0 THEN MAG_SIZE ELSE w.ammo
         IN respawned \/
            /\ fired => /\ loaded >= 1
                        /\ w1.ammo = loaded - 1
                        /\ has(EvAmmo(id, loaded - 1, FALSE))
            /\ ~fired => w1.ammo = loaded \/ (w.reload > 0 /\ w1.reload > 0)
            /\ (ShootStep /\ FireIntent(id) /\ w.ammo = 0 /\ w.reload <= 0
                  /\ w.cooldown <= MagDT)
                 => /\ ~fired
                    /\ w1.ammo = 0 /\ w1.reload = RELOAD_TIME
                    /\ has(EvAmmo(id, 0, TRUE))
            /\ (ShootStep /\ w.reload > 0) => w1.reload = Max(w.reload - MagDT, 0)
            /\ (w.reload > 0 /\ w1.reload <= 0)
                 => /\ has(EvAmmo(id, MAG_SIZE, FALSE))
                    /\ w1.ammo >= MAG_SIZE - 1]_vars

\* The whole cycle has run for h1, who started with a full magazine: twelve
\* shots, a thirteenth intent that started the reload (nobody died, so no
\* kill or respawn refilled or reloaded the weapon), and the reload has just
\* run out with the magazine announced full.
C14_Witness ==
    /\ sent >= MAG_SIZE + 1
    /\ respawns = Empty
    /\ \A h \in DOMAIN scores : scores[h] = [kills |-> 0, deaths |-> 0]
    /\ \E j \in DOMAIN events : events[j] = EvAmmo("h1", MAG_SIZE, FALSE)
    /\ ~\E j \in DOMAIN events : events[j] = EvSpawn("h1")
    /\ weapons["h1"].reload = 0
    /\ weapons["h1"].ammo = MAG_SIZE

\* C15: a bot in Combat that stops seeing a target stays out of Wander until
\* it has been Lost: a Combat bot is never in Wander after its next
\* perception step, a bot leaves Lost for Wander only in the step that
\* brings the Lost timer to zero, and a perception step that sees no target
\* keeps a Lost bot with time left on its timer Lost.
C15_CombatLostWander ==
    [][\A b \in DOMAIN botFsm \cap DOMAIN botFsm' :
         /\ botFsm[b].st = "Combat" => botFsm'[b].st # "Wander"
         /\ (botFsm[b].st = "Lost" /\ botFsm'[b].st = "Wander")
              => botFsm'[b].timer = 0
         /\ (botFsm[b].st = "Lost" /\ botFsm'[b].st = "Lost")
              => botFsm'[b].timer <= botFsm[b].timer]_vars

\* C16: a bot emits a Fire event, uses a round or damages anyone only in a
\* step in which its state is Combat.
C16_BotFiresOnlyInCombat ==
    [][\A b \in DOMAIN bots :
         (\/ \E j \in DOMAIN events' :
                \/ events'[j] = EvFire(b)
                \/ events'[j].t \in {"Hit", "Death"} /\ events'[j].by = b
          \/ \E i \in DOMAIN shots' : shots'[i].by = b
          \/ /\ b \in DOMAIN weapons /\ b \in DOMAIN weapons'
             /\ weapons'[b].ammo < weapons[b].ammo)
         => /\ b \in DOMAIN botFsm
            /\ botFsm[b].st = "Combat"
            /\ botFsm'[b].st = "Combat"]_vars

\* The bot, in Combat, has just fired a round at a human and hit it, after at
\* least one whole tick.
C16_Witness ==
    /\ \E j \in DOMAIN events : events[j].t = "Hit" /\ events[j].by \in BotIds
    /\ \E b \in BotIds : botFsm[b].st = "Combat" /\ weapons[b].ammo < MAG_SIZE
    /\ tick >= 1

\* C17: an actor whose protection timer is above zero does not lose hp and
\* gets no Hit and no Death event in the step, whichever path a shot at it
\* comes from.
C17_ProtectedNeverHit ==
    [][\A id \in DOMAIN protect :
         protect[id] > 0 =>
           /\ ~\E j \in DOMAIN events' :
                 events'[j].t \in {"Hit", "Death"} /\ events'[j].id = id
           /\ (id \in DOMAIN players /\ id \in DOMAIN players')
                => players'[id].hp >= players[id].hp /\ players'[id].alive
           /\ (id \in DOMAIN bots /\ id \in DOMAIN bots')
                => bots'[id].hp >= bots[id].hp /\ bots'[id].alive]_vars

\* Combat resolution has just resolved a human's shot whose ray reached a
\* target that is still protected: the shot was fired and the target has its
\* full hp.
C17_Witness ==
    /\ "shoot" \in ran
    /\ \E i \in DOMAIN shots :
         /\ shots[i].target # None
         /\ shots[i].ray = "target"
         /\ Get(protect, shots[i].target, 0) > 0
         /\ \E j \in DOMAIN events : events[j] = EvFire(shots[i].by)
         /\ HpOf(players, bots, shots[i].target) = FULL_HP

\* C18: every step that spawns or respawns an actor (it broadcasts Spawn for
\* the actor) leaves the actor's protection timer at PROTECT_SEC; in every
\* other step the timer of an actor does not increase, and it is never
\* negative.
C18_SpawnProtects ==
    [][/\ \A j \in DOMAIN events' :
            events'[j].t = "Spawn" =>
              /\ events'[j].id \in DOMAIN protect'
              /\ protect'[events'[j].id] = PROTECT_SEC
       /\ \A id \in DOMAIN protect' :
            /\ protect'[id] >= 0
            /\ (id \in DOMAIN protect
                  /\ ~\E j \in DOMAIN events' : events'[j] = EvSpawn(id))
                 => protect'[id] <= protect[id]]_vars

\* Actor id is in play and dead, or in play and alive.
IsDead(id) ==
    \/ id \in DOMAIN players /\ ~players[id].alive
    \/ id \in DOMAIN bots /\ ~bots[id].alive
IsAlive(id) ==
    \/ id \in DOMAIN players /\ players[id].alive
    \/ id \in DOMAIN bots /\ bots[id].alive

\* C19: every actor that dies is respawned: a dead actor becomes alive again
\* (or leaves the game), and the step that makes it alive gives it hp 100, a
\* full magazine with no cooldown or reload pending and the whole protection,
\* and broadcasts Spawn for it, for humans and bots and whatever the round
\* phase.
C19_DeadActorsRespawn ==
    /\ [][\A id \in Actors :
            (IsDead(id) /\ id \in DOMAIN players' \cup DOMAIN bots'
                        /\ HpOf(players', bots', id) > 0)
              => /\ HpOf(players', bots', id) = FULL_HP
                 /\ id \in DOMAIN weapons' /\ weapons'[id] = FullWeapon
                 /\ id \in DOMAIN protect' /\ protect'[id] = PROTECT_SEC
                 /\ \E j \in DOMAIN events' : events'[j] = EvSpawn(id)]_vars
    /\ \A id \in Actors : IsDead(id) ~> (IsAlive(id) \/ ~IsDead(id))

\* The humans a bot killed in the step that produced the current events.
KilledByBot(ev, bs) ==
    {ev[j].id : j \in {k \in DOMAIN ev : ev[k].t = "Death" /\ ev[k].by \in DOMAIN bs}}

NoScore == [kills |-> 0, deaths |-> 0]

\* C20: only humans have score entries, no bot id ever has one; and in a step
\* of the bots' shooting system each human a bot killed has its death count
\* raised by exactly one, every other death count and every kill count staying
\* as it was.
C20_BotsUnscored ==
    /\ [](DOMAIN scores \subseteq Humans /\ DOMAIN scores \cap DOMAIN bots = {})
    /\ [][("botshoot" \in ran' /\ "botshoot" \notin ran) =>
            /\ KilledByBot(events', bots) \subseteq DOMAIN scores'
            /\ \A id \in DOMAIN scores' :
                 /\ scores'[id].kills = Get(scores, id, NoScore).kills
                 /\ scores'[id].deaths = Get(scores, id, NoScore).deaths
                      + (IF id \in KilledByBot(events', bots) THEN 1 ELSE 0)]_vars

\* A bot has just killed a human, whose death is on the score table.
C20_Witness ==
    /\ "botshoot" \in ran
    /\ \E id \in KilledByBot(events, bots) :
         /\ id \in DOMAIN players /\ ~players[id].alive
         /\ id \in DOMAIN scores /\ scores[id].deaths >= 1

\* The per-actor maps that hold an entry for id.
EntriesOf(id, p, e, bd, w, sc, pr, rs) ==
    {n \in {"state", "collider", "body", "weapon", "score", "protect", "respawn"} :
       \/ n = "state" /\ id \in DOMAIN p
       \/ n = "collider" /\ id \in e
       \/ n = "body" /\ id \in DOMAIN bd
       \/ n = "weapon" /\ id \in DOMAIN w
       \/ n = "score" /\ id \in DOMAIN sc
       \/ n = "protect" /\ id \in DOMAIN pr
       \/ n = "respawn" /\ id \in DOMAIN rs}

\* The server has observed that id left: the id is not connected, no
\* connection event about it is queued and its actor state is gone.
Departed(id) ==
    /\ id \notin clients
    /\ \A i \in DOMAIN srvEvents : srvEvents[i].id # id
    /\ id \notin DOMAIN players

\* C21: once a disconnection has been observed, at the end of every tick from
\* then on no per-actor entry of the departed id is left: no actor state,
\* collider, weapon entry, score entry, protection timer or respawn timer.
C21_DepartedLeavesNothing ==
    [][\A id \in Humans :
         (Departed(id) /\ ran = ConnSystems /\ ran' = {})
           => EntriesOf(id, players', ents', bodies', weapons', scores', protect',
                        respawns') = {}]_vars

\* C22: whatever the order in which the connection-event handler, the
\* reconciliation pass and the bot maintainer run, every registered actor has
\* exactly one collider entity, which is the recorded one, and no collider
\* entity exists for anyone else.
C22_OneBodyPerActor ==
    /\ ents = DOMAIN players \cup DOMAIN bots
    /\ DOMAIN bodies = ents
    /\ \A id \in DOMAIN bodies : bodies[id] = 1

\* The place of each FixedUpdate system in the order of sub-steps the claim
\* gives: input ingestion, movement before physics, physics, sync after
\* physics, bot AI, combat resolution, scaffold lifecycle, round state
\* machine, position-history sample, snapshot broadcast.
StepRank(sys) ==
    CASE sys = "recv" -> 1
      [] sys = "kccpost" -> 4
      [] sys = "perceive" -> 5
      [] sys \in {"shoot", "botshoot"} -> 6
      [] sys \in {"place", "scafftick"} -> 7
      [] sys = "round" -> 8
      [] sys = "history" -> 9

\* C23: within every tick the sub-steps run in the one fixed order; no system
\* runs after a system that comes later in that order.
C23_FixedStepOrder ==
    [][\A sys \in ran' \ ran : \A done \in ran : StepRank(done) <= StepRank(sys)]_vars

\* The requests of a queue that carry a usable direction.
ValidFires(q) == SelectSeq(q, LAMBDA f : f.ok)

\* C24: every explicit fire request and every placement request is resolved
\* exactly once.  A run of combat resolution in an Active round takes every
\* queued fire request with a usable direction through the explicit fire path
\* and leaves none queued; outside an Active round the queue is kept whole.  A
\* run of the placement system turns every queued placement into one scaffold
\* or puts it back in the queue.
C24_RequestsResolvedOnce ==
    [][/\ ("shoot" \in ran' \ ran /\ round.phase = "Active")
            => /\ fires' = <<>>
               /\ hist'.resolved = Len(ValidFires(fires))
       /\ ("shoot" \in ran' \ ran /\ round.phase # "Active") => fires' = fires
       /\ "place" \in ran' \ ran
            => Cardinality({j \in DOMAIN events' : events'[j].t = "ScaffoldSpawn"})
                 + Len(pending') = Len(pending)]_vars

\* How many entries of a sequence satisfy a test.
Count(seq, Test(_)) == Cardinality({j \in DOMAIN seq : Test(seq[j])})

C26_BotShotCostsOneRound ==
    [][\A id \in DOMAIN bots \cap DOMAIN weapons :
         (/\ "botshoot" \in ran' \ ran
          /\ \E j \in DOMAIN events' : events'[j] = EvFire(id))
           => /\ weapons'[id].ammo = weapons[id].ammo - 1
              /\ weapons'[id].cooldown = BOT_FIRE_COOLDOWN]_vars

\* C27: an accepted human shot that takes the shooter's last round starts a
\* reload in the same step, on either fire path and whether or not the shot
\* hit or killed anyone.
C27_LastRoundStartsReload ==
    [][ShootStep =>
        \A i \in DOMAIN shots' :
          LET id == shots'[i].by
              w == Get(weapons, id, FullWeapon)
          IN (/\ w.ammo = 1 /\ w.reload <= 0
              /\ ~\E j \in DOMAIN events' : events'[j] = EvSpawn(id))
               => /\ weapons'[id].ammo = 0
                  /\ weapons'[id].reload = RELOAD_TIME]_vars

\* The hit distance of a ray against actor a's position rewound to
\* sim - LAG_COMP_SEC.
RewoundHit(a, origin, dir) ==
    LET c == rewind_pos(posHist, a, simTime - LAG_COMP_SEC)
    IN IF c = NoPos THEN NoHit ELSE ray_cylinder_hit(origin, dir, c)

\* C28: on both human fire paths the actor chosen to take the damage is the
\* other living actor with the smallest ray-cylinder hit distance against the
\* positions rewound to sim - LAG_COMP_SEC.
C28_DamageByRewoundPositions ==
    [][\A i \in DOMAIN shots' :
         LET s == shots'[i]
             dist(a) == RewoundHit(a, s.origin, s.dir)
         IN ("aim" \in ran' \ ran /\ s.target # None)
              => s.target \in Nearest(Candidates(s.by), dist)]_vars

\* The humans that human by killed in the step that produced events ev.
KilledBy(ev, by) ==
    {ev[j].id : j \in {k \in DOMAIN ev : ev[k].t = "Death" /\ ev[k].by = by
                                          /\ ev[k].id \in Humans}}

\* C29: in a step of combat resolution every human a human's shot killed has
\* its death count raised by exactly one, and the shooter's kill count rises
\* by exactly one for each human it killed.
C29_KillAndDeathScored ==
    [][ShootStep =>
         \A by \in DOMAIN players :
            /\ KilledBy(events', by) # {}
                 => /\ by \in DOMAIN scores'
                    /\ scores'[by].kills = Get(scores, by, NoScore).kills
                                              + Cardinality(KilledBy(events', by))
            /\ \A v \in KilledBy(events', by) :
                 /\ v \in DOMAIN scores'
                 /\ scores'[v].deaths = Get(scores, v, NoScore).deaths + 1]_vars

\* C30: at every tick boundary (and in every state between) each human and
\* each bot is alive exactly when its hp is above zero.
C30_AliveIffHp ==
    /\ \A id \in DOMAIN players : players[id].alive <=> players[id].hp > 0
    /\ \A id \in DOMAIN bots : bots[id].alive <=> bots[id].hp > 0

\* A tick boundary of a running round with a human killed in the tick just
\* ended (dead at hp 0, its respawn delay untouched) next to a wounded
\* living actor.
C30_Witness ==
    /\ ran = {} /\ tick >= 1 /\ round.phase = "Active"
    /\ \E id \in DOMAIN players :
         /\ ~players[id].alive /\ players[id].hp = 0
         /\ id \in DOMAIN respawns /\ respawns[id] = RESPAWN_DELAY
    /\ \E b \in DOMAIN bots : bots[b].alive /\ bots[b].hp \in 1..(FULL_HP - 1)

\* C31: a bot that fires at a human has kept that human in its sights, in
\* Combat and without a break, for the reaction delay.
C31_BotFiresAfterReaction ==
    [][\A i \in DOMAIN shots' :
         ("botshoot" \in ran' \ ran /\ shots'[i].path = "bot")
           => /\ shots'[i].by \in DOMAIN hist'.run
              /\ hist'.run[shots'[i].by].tgt = shots'[i].target
              /\ hist'.run[shots'[i].by].t >= BOT_REACT_SEC]_vars

\* Smallest distance from point q to an alive actor, human or bot.
ActorDist(q) ==
    LET ds == {Abs(players[x].pos - q) : x \in {y \in DOMAIN players : players[y].alive}}
                \cup {Abs(SnapPos(b) - q) : b \in {y \in DOMAIN bots : bots[y].alive}}
    IN IF ds = {} THEN INFINITY ELSE CHOOSE d \in ds : \A e \in ds : d <= e

\* C32: a respawning human is put on a registered spawn point whose distance
\* to the nearest alive actor, human or bot, is largest, and on the default
\* point when no spawn point is registered.
C32_SpawnFarthestFromActors ==
    [][\A id \in DOMAIN players :
         ("shoot" \in ran' \ ran /\ \E j \in DOMAIN events' : events'[j] = EvSpawn(id))
           => IF spawns = <<>> THEN players'[id].pos = DefaultSpawn
              ELSE /\ players'[id].pos \in Range(spawns)
                   /\ \A q \in Range(spawns) :
                        ActorDist(q) <= ActorDist(players'[id].pos)]_vars

\* ScaffoldDespawn events for scaffold sid in a sequence of events.
DespawnCount(ev, sid) ==
    Cardinality({j \in DOMAIN ev : ev[j] = EvScaffoldDespawn(sid)})

\* C33: a live scaffold has between one tick and its full lifetime left, in
\* every round phase each run of the lifetime system takes dt off it, a
\* scaffold that leaves the table (expired or evicted) is announced by
\* exactly one ScaffoldDespawn event in that step and no other scaffold is
\* announced, and every scaffold in the table eventually leaves it.
C33_ScaffoldsExpire ==
    /\ [](\A sid \in DOMAIN scaffolds.by_id :
            scaffolds.by_id[sid].life \in 1..SCAFFOLD_LIFETIME)
    /\ [][/\ "scafftick" \in ran' \ ran =>
              \A sid \in DOMAIN scaffolds.by_id :
                 IF scaffolds.by_id[sid].life - DT > 0
                 THEN /\ sid \in DOMAIN scaffolds'.by_id
                      /\ scaffolds'.by_id[sid].life = scaffolds.by_id[sid].life - DT
                 ELSE sid \notin DOMAIN scaffolds'.by_id
          /\ ran' \ ran \subseteq {"scafftick", "place"} =>
              \A sid \in 1..(nextSid' - 1) :
                 DespawnCount(events', sid) =
                   IF /\ sid \notin DOMAIN scaffolds'.by_id
                      /\ \/ sid \in DOMAIN scaffolds.by_id
                         \/ \E j \in DOMAIN events' : events'[j].t = "ScaffoldSpawn"
                                                       /\ events'[j].n = sid
                   THEN 1 ELSE 0]_vars
    /\ \A sid \in 1..(SCAFFOLD_PER_PLAYER_LIMIT + LivePlace) :
         (sid \in DOMAIN scaffolds.by_id) ~> (sid \notin DOMAIN scaffolds.by_id)

\* A scaffold placed in an Ending round has run out: its ScaffoldDespawn
\* event is out and it has left the table with the owner's list.
C33_Witness ==
    /\ round.phase = "Ending"
    /\ "scafftick" \in ran
    /\ \E sid \in (SCAFFOLD_PER_PLAYER_LIMIT + 1)..(nextSid - 1) :
         /\ DespawnCount(events, sid) = 1
         /\ sid \notin DOMAIN scaffolds.by_id
         /\ \A o \in DOMAIN scaffolds.per_owner : sid \notin Range(scaffolds.per_owner[o])

\* C34: in every run of combat resolution, whatever the round phase, a
\* weapon's positive reload timer and positive cooldown go down by dt, not
\* below zero, and a reload that reaches zero refills the magazine and
\* announces it (an actor that respawns in the step gets a fresh weapon, one
\* that fires gets a new cooldown).
C34_WeaponTimersRun ==
    [][\A id \in DOMAIN weapons :
         LET w == weapons[id]
             respawned == \E j \in DOMAIN events' : events'[j] = EvSpawn(id)
             fired == \E i \in DOMAIN shots' : shots'[i].by = id
         IN ("shoot" \in ran' \ ran /\ ~respawned /\ id \in DOMAIN weapons')
              => /\ w.reload > 0
                      => /\ weapons'[id].reload = Max(0, w.reload - DT)
                         /\ weapons'[id].reload = 0
                              => /\ weapons'[id].ammo >= MAG_SIZE - 1
                                 /\ \E j \in DOMAIN events' :
                                      events'[j] = EvAmmo(id, MAG_SIZE, FALSE)
                 /\ (w.cooldown > 0 /\ ~fired)
                      => weapons'[id].cooldown = Max(0, w.cooldown - DT)]_vars

C36_HistoryWindow ==
    [][("history" \in ran' \ ran) =>
         \A a \in DOMAIN players \cup DOMAIN bots :
            LET old == Get(posHist, a, <<>>)
                new == Get(posHist', a, <<>>)
                n == Len(new)
            IN /\ n >= 1
               /\ new[n].t = simTime'
               /\ \A i \in 1..(n - 1) : new[i].t < new[i + 1].t
               /\ \A i \in 1..n : simTime' - new[i].t <= HIST_MAX_SEC
               /\ n - 1 <= Len(old)
               /\ SubSeq(new, 1, n - 1) = SubSeq(old, Len(old) - n + 2, Len(old))
               /\ \A j \in 1..Len(old) :
                    simTime' - old[j].t <= HIST_MAX_SEC => old[j] \in Range(new)
               /\ LAG_COMP_SEC <= HIST_MAX_SEC]_vars

\* A sampling step has just dropped the oldest samples of an actor and kept
\* the one that is exactly HIST_MAX_SEC old.
C36_Witness ==
    /\ "history" \in ran
    /\ \E a \in DOMAIN players \cup DOMAIN bots :
         /\ a \in DOMAIN posHist
         /\ Len(posHist[a]) >= 2
         /\ posHist[a][1].t = simTime - HIST_MAX_SEC
         /\ posHist[a][1].t > HistDT
         /\ posHist[a][Len(posHist[a])].t = simTime

\* C37: every human marked dead has an entry in the human respawn timers and
\* every bot marked dead has an entry in the bot respawn timers.
C37_DeadHasRespawnTimer ==
    /\ \A h \in DOMAIN players : ~players[h].alive => h \in DOMAIN respawns
    /\ \A b \in DOMAIN bots : ~bots[b].alive => b \in DOMAIN botRespawns

\* A combat step has just killed a human: its Death event is out, it is
\* marked dead and its respawn timer starts at the full delay.
C37_Witness ==
    /\ "shoot" \in ran
    /\ \E h \in DOMAIN players :
         /\ \E i \in DOMAIN events : events[i].t = "Death" /\ events[i].id = h
         /\ ~players[h].alive /\ h \in DOMAIN respawns
         /\ respawns[h] = RESPAWN_DELAY

\* Alive flag of an actor in a players map and a bots map; an actor that is
\* not registered counts as not alive.
AliveIn(p, b, a) ==
    \/ a \in DOMAIN p /\ p[a].alive
    \/ a \in DOMAIN b /\ b[a].alive

\* Index of the latest Death or Spawn event for actor a before position i of
\* ev, or 0.
LastLife(ev, a, i) ==
    LET js == {j \in 1..(i - 1) : ev[j].t \in {"Death", "Spawn"} /\ ev[j].id = a}
    IN IF js = {} THEN 0 ELSE CHOOSE j \in js : \A k \in js : k <= j

\* C38: a Hit or Death event names an actor that is alive at that point (it
\* was alive before the step, or the step's latest earlier Death or Spawn
\* event for it is a Spawn); an actor whose latest Death or Spawn event of the
\* step is a Death is dead after it; an actor comes alive only in a step
\* that emits a Spawn event for it; and a dead actor's hp never decreases.
C38_NoDoubleDeath ==
    [][/\ \A i \in DOMAIN events' :
           events'[i].t \in {"Hit", "Death"} =>
              LET a == events'[i].id
                  j == LastLife(events', a, i)
              IN IF j = 0 THEN AliveIn(players, bots, a)
                 ELSE events'[j].t = "Spawn"
       /\ \A a \in Actors :
           LET j == LastLife(events', a, Len(events') + 1)
           IN /\ (j # 0 /\ events'[j].t = "Death") => ~AliveIn(players', bots', a)
              /\ (j = 0 /\ AliveIn(players', bots', a)) => AliveIn(players, bots, a)
       /\ \A a \in DOMAIN players \cap DOMAIN players' :
           ~players[a].alive /\ ~players'[a].alive => players'[a].hp >= players[a].hp
       /\ \A a \in DOMAIN bots \cap DOMAIN bots' :
           ~bots[a].alive /\ ~bots'[a].alive => bots'[a].hp >= bots[a].hp]_vars

\* Two shooters have hit the same victim in one combat step and it died
\* once.
C38_Witness ==
    /\ "shoot" \in ran
    /\ \E i, j \in DOMAIN shots :
         /\ i # j /\ shots[i].by # shots[j].by
         /\ shots[i].target = shots[j].target /\ shots[i].target # None
         /\ Cardinality({k \in DOMAIN events :
                           events[k].t = "Death" /\ events[k].id = shots[i].target}) = 1

\* C39: in a step of either combat system taken while the round phase is
\* Ending no shot is resolved, no magazine loses a round, no actor loses hp
\* or dies and no score changes.
C39_EndingFreezesCombat ==
    [][(round.phase = "Ending" /\ (ran' \ ran) \cap {"shoot", "botshoot"} # {}) =>
         /\ shots' = <<>>
         /\ \A a \in DOMAIN weapons \cap DOMAIN weapons' :
              weapons'[a].ammo >= weapons[a].ammo
         /\ \A h \in DOMAIN players \cap DOMAIN players' :
              /\ players'[h].hp >= players[h].hp
              /\ players[h].alive => players'[h].alive
         /\ \A b \in DOMAIN bots \cap DOMAIN bots' :
              /\ bots'[b].hp >= bots[b].hp
              /\ bots[b].alive => bots'[b].alive
         /\ \A i \in DOMAIN events' : events'[i].t # "Death"
         /\ scores' = scores]_vars

====
